---- MODULE Spec2Model ----
(***************************************************************************)
(* slackmd: the Slack-markdown to Markdown converter.                      *)
(*                                                                         *)
(* The converter is a character-level state machine (stateMachine.ts, the  *)
(* blockquote/list-capable variant) run by a driver loop (index.ts).  A    *)
(* token is one character, written here as a one-character string; the    *)
(* bullet glyph is written "u2022", the backtick "u0060".  Strings (the    *)
(* result, a link's url and display text) are sequences of tokens.         *)
(***************************************************************************)
EXTENDS Integers, Sequences, FiniteSets, TLC

\* tokens: text.split(""); i: the loop index; machine: the driver's machine;
\* faults: how many times dispatch or a handler has raised so far.
\* tokens2, i2, machine2: the same three locals of a second call.
VARIABLES tokens, i, machine, faults, tokens2, i2, machine2

vars == <<tokens, i, machine, faults, tokens2, i2, machine2>>

\* The variables of the second call.
vars2 == <<tokens2, i2, machine2>>

----------------------------------------------------------------------------
(* Characters *)

Bullet == "u2022"

\* The backtick, U+0060.
Backtick == "u0060"

NL == "\n"

\* JavaScript's /\s/ on a single token: the white space and the line
\* terminators of ECMAScript (tab, line feed, vertical tab, form feed,
\* carriage return, space, no-break space, the space separators of Unicode,
\* the line and paragraph separators, the byte order mark).
isWhitespace(c) ==
    c \in {"\t", "\n", "u000B", "\f", "\r", " ", "u00A0", "u1680",
           "u2000", "u2001", "u2002", "u2003", "u2004", "u2005", "u2006",
           "u2007", "u2008", "u2009", "u200A", "u2028", "u2029", "u202F",
           "u205F", "u3000", "uFEFF"}

\* JavaScript's /\d/ on a single token.
isDigit(c) == c \in {"0", "1", "2", "3", "4", "5", "6", "7", "8", "9"}

\* String.prototype.repeat for a one-token string.
repeat(tok, times) == [k \in 1..times |-> tok]

\* Array.prototype.findIndex(token => token === tok): 0-based, -1 when absent.
findIndex(s, tok) ==
    IF \E k \in 1..Len(s) : s[k] = tok
    THEN (CHOOSE k \in 1..Len(s) : s[k] = tok /\ \A j \in 1..(k - 1) : s[j] # tok) - 1
    ELSE -1

\* s[k] of a JavaScript array (0-based), with the code's ?? "" default.
at(s, k) == IF k >= 0 /\ k < Len(s) THEN s[k + 1] ELSE ""

\* Array.prototype.slice(0, n).
sliceTo(s, n) == SubSeq(s, 1, IF n < Len(s) THEN n ELSE Len(s))

\* startsWith on a token sequence.
startsWith(s, p) == Len(s) >= Len(p) /\ SubSeq(s, 1, Len(p)) = p

\* The value null of LinkStateData.displayText: no token is the string "null".
Null == <<"null">>

\* Mutant: only null is falsy.
orElse_nullOnly(d, e) == IF d = Null THEN e ELSE d

\* JavaScript truthiness of displayText (null and "" are falsy).
orElse(d, e) == IF d = Null \/ d = <<>> THEN e ELSE d

----------------------------------------------------------------------------
(* The position window handed to every predicate and handler *)

StateMachineInput(toks, n) ==
    [previousTokens |-> SubSeq(toks, 1, n),
     currentToken   |-> toks[n + 1],
     nextTokens     |-> SubSeq(toks, n + 2, Len(toks))]

\* The window one token further, as BULLET_LIST builds it for its lookahead.
lookaheadInput(input) ==
    [previousTokens |-> Append(input.previousTokens, input.currentToken),
     currentToken   |-> at(input.nextTokens, 0),
     nextTokens     |-> SubSeq(input.nextTokens, 2, Len(input.nextTokens))]

----------------------------------------------------------------------------
(* Predicates *)

\* Mutant: the later occurrence of the marker is not looked for.
shouldEnterFormattedText_noLookahead(input, formatToken) ==
    /\ input.currentToken = formatToken
    /\ ~(Len(input.nextTokens) > 0 /\ isWhitespace(at(input.nextTokens, 0)))

shouldEnterFormattedText(input, formatToken) ==
    LET nextIdx == findIndex(input.nextTokens, formatToken) IN
    /\ input.currentToken = formatToken
    /\ nextIdx # -1
    /\ ~(Len(input.nextTokens) > 0 /\ isWhitespace(at(input.nextTokens, 0)))
    /\ ~(nextIdx > 0 /\ isWhitespace(at(input.nextTokens, nextIdx - 1)))

isCodeBlockStart(input) ==
    /\ input.currentToken = Backtick
    /\ Len(input.nextTokens) >= 2
    /\ input.nextTokens[1] = Backtick
    /\ input.nextTokens[2] = Backtick

\* Mutant: the scheme is not looked at.
isLinkStart_anyAngle(input) ==
    /\ input.currentToken = "<"
    /\ Len(input.nextTokens) # 0

isLinkStart(input) ==
    LET nextChars == sliceTo(input.nextTokens, 8) IN
    /\ input.currentToken = "<"
    /\ Len(input.nextTokens) # 0
    /\ \/ startsWith(nextChars, <<"h", "t", "t", "p", ":", "/", "/">>)
       \/ startsWith(nextChars, <<"h", "t", "t", "p", "s", ":", "/", "/">>)

\* Mutant: the line-start test is dropped.
isBeginningOfLine_always(input) == TRUE

isBeginningOfLine(input) ==
    \/ Len(input.previousTokens) = 0
    \/ input.previousTokens[Len(input.previousTokens)] = NL

isInlineCode(input) ==
    /\ input.currentToken = Backtick
    /\ ~(/\ Len(input.nextTokens) >= 2
         /\ input.nextTokens[1] = Backtick
         /\ input.nextTokens[2] = Backtick)
    /\ \E k \in 1..Len(input.nextTokens) : input.nextTokens[k] = Backtick

\* Mutant: only the bullet glyph marks a list item.
isBulletListMarker_glyphOnly(input) ==
    isBeginningOfLine(input) /\ input.currentToken = Bullet

isBulletListMarker(input) ==
    /\ isBeginningOfLine(input)
    /\ \/ input.currentToken = Bullet
       \/ /\ input.currentToken = "*"
          /\ Len(input.nextTokens) > 0
          /\ input.nextTokens[1] = " "

\* The number of leading digits of s: the while loop of isOrderedListMarker.
RECURSIVE digitRun(_)
digitRun(s) ==
    IF Len(s) > 0 /\ isDigit(Head(s)) THEN 1 + digitRun(Tail(s)) ELSE 0

\* Mutant: the digits after the first are not read.
isOrderedListMarker_oneDigit(input) ==
    /\ isBeginningOfLine(input)
    /\ isDigit(input.currentToken)
    /\ Len(input.nextTokens) >= 2
    /\ at(input.nextTokens, 0) = "."
    /\ at(input.nextTokens, 1) = " "

isOrderedListMarker(input) ==
    LET n == digitRun(input.nextTokens) IN
    /\ isBeginningOfLine(input)
    /\ isDigit(input.currentToken)
    /\ Len(input.nextTokens) >= 2
    /\ n < Len(input.nextTokens) - 1
    /\ at(input.nextTokens, n) = "."
    /\ at(input.nextTokens, n + 1) = " "

isHtmlEntity(input, entity) ==
    LET entityWithoutAmp == Tail(entity) IN
    /\ input.currentToken = "&"
    /\ Len(input.nextTokens) >= Len(entity) - 1
    /\ \A k \in 1..Len(entityWithoutAmp) : input.nextTokens[k] = entityWithoutAmp[k]

EntityGt == <<"&", "g", "t", ";">>
EntityLt == <<"&", "l", "t", ";">>
EntityAmp == <<"&", "a", "m", "p", ";">>

----------------------------------------------------------------------------
(* State data.  A machine is [currentState, result]; the logger has no     *)
(* effect on either and is left out.                                        *)

BasicStateData(state, prevState) == [state |-> state, prevState |-> prevState]

LinkStateData(url, displayText, parsingPhase, prevState) ==
    [state |-> "LINK", url |-> url, displayText |-> displayText,
     parsingPhase |-> parsingPhase, prevState |-> prevState]

SkipTokensStateData(tokensToSkip, nextState, prevState) ==
    [state |-> "SKIP_TOKENS", tokensToSkip |-> tokensToSkip,
     nextState |-> nextState, prevState |-> prevState]

\* Mutant: the output of the step replaces the result.
with_overwrite(sm, out, st) == [currentState |-> st, result |-> out]

\* { ...sm, result: sm.result + out, currentState: st }
with(sm, out, st) == [currentState |-> st, result |-> sm.result \o out]

createStateMachine == [currentState |-> BasicStateData("TEXT", "TEXT"), result |-> <<>>]

----------------------------------------------------------------------------
(* HTML entities *)

\* Mutant: one token too few is skipped after the decoded character.
decodeEntity_short(sm, char, tokensToSkip, nextState, prevState) ==
    with(sm, <<char>>, SkipTokensStateData(tokensToSkip - 1, nextState, prevState))

\* The SKIP_TOKENS transition that replaces an entity by its character.
decodeEntity(sm, char, tokensToSkip, nextState, prevState) ==
    with(sm, <<char>>, SkipTokensStateData(tokensToSkip, nextState, prevState))

\* <<>> stands for the null the code returns when no entity starts here.
handleSpecialCharacters(sm, input, nextState, prevState) ==
    IF isHtmlEntity(input, EntityGt)
    THEN <<decodeEntity(sm, ">", 3, nextState, prevState)>>
    ELSE IF isHtmlEntity(input, EntityLt)
    THEN <<decodeEntity(sm, "<", 3, nextState, prevState)>>
    ELSE IF isHtmlEntity(input, EntityAmp)
    THEN <<decodeEntity(sm, "&", 4, nextState, prevState)>>
    ELSE <<>>

----------------------------------------------------------------------------
(* Transitions shared by several handlers *)

\* Entering LINK: the opening < is not added to the result.
enterLink(sm, prevState) ==
    with(sm, <<>>, LinkStateData(<<>>, Null, "url", prevState))

\* Entering BOLD, ITALIC, STRIKETHROUGH or INLINE_CODE from prevState.
enterFormattedText(sm, stateKey, out, prevState) ==
    with(sm, out, BasicStateData(stateKey, prevState))

\* Mutant: the token looked at is the one after the first backtick.
hasNewlineAfterOpening_first(input) ==
    Len(input.nextTokens) > 0 /\ input.nextTokens[1] = NL

\* The opening fence: a newline is added unless one follows the three backticks.
hasNewlineAfterOpening(input) ==
    Len(input.nextTokens) > 2 /\ input.nextTokens[3] = NL

enterCodeBlock(sm, input, prevState) ==
    with(sm,
         <<Backtick, Backtick, Backtick>>
             \o (IF hasNewlineAfterOpening(input) THEN <<>> ELSE <<NL>>),
         SkipTokensStateData(2, "CODE_BLOCK", prevState))

\* The fallback of every handler: copy the token, hold the state.
copyToken(sm, input, stateKey) ==
    with(sm, <<input.currentToken>>, BasicStateData(stateKey, sm.currentState.prevState))

----------------------------------------------------------------------------
(* Formatted-text states *)

\* Mutant: the closing marker is emitted once whatever `times` says.
exitFormattedText_once(sm, input, stateKey, formatToken, times) ==
    with(sm, <<formatToken>>,
         BasicStateData(IF Len(input.nextTokens) > 0
                        THEN sm.currentState.prevState ELSE "END",
                        stateKey))

\* The closing marker: back to prevState, or END on the last token.
exitFormattedText(sm, input, stateKey, formatToken, times) ==
    with(sm, repeat(formatToken, times),
         BasicStateData(IF Len(input.nextTokens) > 0
                        THEN sm.currentState.prevState ELSE "END",
                        stateKey))

\* Mutant: a newline ends the span.
createFormattedTextStateHandler_newlineEnds(stateKey, formatToken, times, sm, input) ==
    IF input.currentToken = formatToken
    THEN exitFormattedText(sm, input, stateKey, formatToken, times)
    ELSE IF input.currentToken = NL
    THEN with(sm, <<NL>>, BasicStateData(sm.currentState.prevState, stateKey))
    ELSE IF isLinkStart(input)
    THEN enterLink(sm, stateKey)
    ELSE LET specialCharsResult == handleSpecialCharacters(sm, input, stateKey, stateKey) IN
         IF specialCharsResult # <<>>
         THEN specialCharsResult[1]
         ELSE copyToken(sm, input, stateKey)

createFormattedTextStateHandler(stateKey, formatToken, times, sm, input) ==
    IF input.currentToken = formatToken
    THEN exitFormattedText(sm, input, stateKey, formatToken, times)
    ELSE IF isLinkStart(input)
    THEN enterLink(sm, stateKey)
    ELSE LET specialCharsResult == handleSpecialCharacters(sm, input, stateKey, stateKey) IN
         IF specialCharsResult # <<>>
         THEN specialCharsResult[1]
         ELSE copyToken(sm, input, stateKey)

BOLD(sm, input) == createFormattedTextStateHandler("BOLD", "*", 2, sm, input)

\* Mutant: italic closes with a doubled marker, like bold.
ITALIC_doubled(sm, input) ==
    createFormattedTextStateHandler("ITALIC", "_", 2, sm, input)

ITALIC(sm, input) == createFormattedTextStateHandler("ITALIC", "_", 1, sm, input)

STRIKETHROUGH(sm, input) ==
    createFormattedTextStateHandler("STRIKETHROUGH", "~", 2, sm, input)

INLINE_CODE(sm, input) ==
    createFormattedTextStateHandler("INLINE_CODE", Backtick, 1, sm, input)

----------------------------------------------------------------------------
(* BULLET_LIST *)

\* Mutant: only a bullet marker keeps the list going.
isFollowedByListItem_bulletOnly(input) ==
    /\ Len(input.nextTokens) > 0
    /\ isBulletListMarker(lookaheadInput(input))

isFollowedByListItem(input) ==
    /\ Len(input.nextTokens) > 0
    /\ \/ isBulletListMarker(lookaheadInput(input))
       \/ isOrderedListMarker(lookaheadInput(input))

hasDoubleNewline(input) ==
    Len(input.nextTokens) > 0 /\ input.nextTokens[1] = NL

\* Leaving the list on a newline that no list item follows.
exitBulletList(sm, input) ==
    with(sm,
         <<NL>> \o (IF hasDoubleNewline(input) \/ Len(input.nextTokens) = 0
                    THEN <<>> ELSE <<NL>>),
         BasicStateData("TEXT", "BULLET_LIST"))

BULLET_LIST(sm, input) ==
    IF input.currentToken = Bullet
    THEN with(sm, <<"*">>, BasicStateData("BULLET_LIST", sm.currentState.prevState))
    ELSE IF input.currentToken = NL
    THEN IF ~isFollowedByListItem(input)
         THEN exitBulletList(sm, input)
         ELSE copyToken(sm, input, "BULLET_LIST")
    ELSE IF isLinkStart(input)
    THEN enterLink(sm, "BULLET_LIST")
    ELSE IF shouldEnterFormattedText(input, "*")
    THEN enterFormattedText(sm, "BOLD", <<"*", "*">>, "BULLET_LIST")
    ELSE IF shouldEnterFormattedText(input, "_")
    THEN enterFormattedText(sm, "ITALIC", <<"_">>, "BULLET_LIST")
    ELSE IF shouldEnterFormattedText(input, "~")
    THEN enterFormattedText(sm, "STRIKETHROUGH", <<"~", "~">>, "BULLET_LIST")
    ELSE IF isInlineCode(input)
    THEN enterFormattedText(sm, "INLINE_CODE", <<Backtick>>, "BULLET_LIST")
    ELSE LET specialCharsResult ==
                 handleSpecialCharacters(sm, input, "BULLET_LIST", "BULLET_LIST") IN
         IF specialCharsResult # <<>>
         THEN specialCharsResult[1]
         ELSE copyToken(sm, input, "BULLET_LIST")

----------------------------------------------------------------------------
(* TEXT *)

\* TEXT ends the conversion on the last token.
\* Mutant: END is entered one token early.
copyTokenOrEnd_early(sm, input, out) ==
    with(sm, out,
         IF Len(input.nextTokens) > 1
         THEN BasicStateData("TEXT", sm.currentState.prevState)
         ELSE BasicStateData("END", "TEXT"))

copyTokenOrEnd(sm, input, out) ==
    with(sm, out,
         IF Len(input.nextTokens) > 0
         THEN BasicStateData("TEXT", sm.currentState.prevState)
         ELSE BasicStateData("END", "TEXT"))

\* Mutant: the list is renumbered from 1.
enterOrderedList_renumbered(sm, input) ==
    with(sm, <<"1">>, BasicStateData("BULLET_LIST", "TEXT"))

\* The first digit of an ordered-list marker is copied; a list begins.
enterOrderedList(sm, input) ==
    with(sm, <<input.currentToken>>, BasicStateData("BULLET_LIST", "TEXT"))

TEXT(sm, input) ==
    IF isBeginningOfLine(input) /\ input.currentToken = ">"
    THEN with(sm, <<">">>, BasicStateData("BLOCKQUOTE", "TEXT"))
    ELSE IF isBulletListMarker(input)
    THEN with(sm, <<"*">>, BasicStateData("BULLET_LIST", "TEXT"))
    ELSE IF isOrderedListMarker(input)
    THEN enterOrderedList(sm, input)
    ELSE IF isLinkStart(input)
    THEN enterLink(sm, "TEXT")
    ELSE IF isCodeBlockStart(input)
    THEN enterCodeBlock(sm, input, "TEXT")
    ELSE IF shouldEnterFormattedText(input, "*")
    THEN enterFormattedText(sm, "BOLD", <<"*", "*">>, "TEXT")
    ELSE IF shouldEnterFormattedText(input, "_")
    THEN enterFormattedText(sm, "ITALIC", <<"_">>, "TEXT")
    ELSE IF shouldEnterFormattedText(input, "~")
    THEN enterFormattedText(sm, "STRIKETHROUGH", <<"~", "~">>, "TEXT")
    ELSE IF isInlineCode(input)
    THEN enterFormattedText(sm, "INLINE_CODE", <<Backtick>>, "TEXT")
    ELSE IF input.currentToken = Bullet
    THEN copyTokenOrEnd(sm, input, <<"*">>)
    ELSE LET specialCharsResult == handleSpecialCharacters(sm, input, "TEXT", "TEXT") IN
         IF specialCharsResult # <<>>
         THEN specialCharsResult[1]
         ELSE copyTokenOrEnd(sm, input, <<input.currentToken>>)

----------------------------------------------------------------------------
(* CODE_BLOCK *)

hasNewlineBeforeClosing(input) ==
    /\ Len(input.previousTokens) > 0
    /\ input.previousTokens[Len(input.previousTokens)] = NL

\* Mutant: the closing fence resumes the state the block was opened in.
exitCodeBlock_resumesOpener(sm, input) ==
    with(sm,
         (IF hasNewlineBeforeClosing(input) THEN <<>> ELSE <<NL>>)
             \o <<Backtick, Backtick, Backtick>>,
         SkipTokensStateData(2, sm.currentState.prevState, "CODE_BLOCK"))

\* The closing fence: a newline is added unless one precedes it; TEXT follows.
exitCodeBlock(sm, input) ==
    with(sm,
         (IF hasNewlineBeforeClosing(input) THEN <<>> ELSE <<NL>>)
             \o <<Backtick, Backtick, Backtick>>,
         SkipTokensStateData(2, "TEXT", "CODE_BLOCK"))

\* Mutant: a bold span may open inside the code block.
CODE_BLOCK_emphasis(sm, input) ==
    IF isCodeBlockStart(input)
    THEN exitCodeBlock(sm, input)
    ELSE IF isLinkStart(input)
    THEN enterLink(sm, "CODE_BLOCK")
    ELSE IF shouldEnterFormattedText(input, "*")
    THEN enterFormattedText(sm, "BOLD", <<"*", "*">>, "CODE_BLOCK")
    ELSE LET specialCharsResult ==
                 handleSpecialCharacters(sm, input, "CODE_BLOCK", "CODE_BLOCK") IN
         IF specialCharsResult # <<>>
         THEN specialCharsResult[1]
         ELSE copyToken(sm, input, "CODE_BLOCK")

CODE_BLOCK(sm, input) ==
    IF isCodeBlockStart(input)
    THEN exitCodeBlock(sm, input)
    ELSE IF isLinkStart(input)
    THEN enterLink(sm, "CODE_BLOCK")
    ELSE LET specialCharsResult ==
                 handleSpecialCharacters(sm, input, "CODE_BLOCK", "CODE_BLOCK") IN
         IF specialCharsResult # <<>>
         THEN specialCharsResult[1]
         ELSE copyToken(sm, input, "CODE_BLOCK")

----------------------------------------------------------------------------
(* LINK *)

\* What a handler returns in place of a machine when it throws.
Thrown == [thrown |-> "Invalid state"]

isThrown(r) == "thrown" \in DOMAIN r

\* Mutant: the url and the display text change places.
markdownLink_swapped(linkData) ==
    <<"[">> \o linkData.url \o <<"]", "(">>
        \o orElse(linkData.displayText, linkData.url) \o <<")">>

\* `[${displayText}](${url})`
markdownLink(linkData) ==
    <<"[">> \o orElse(linkData.displayText, linkData.url) \o <<"]", "(">>
        \o linkData.url \o <<")">>

\* Mutant: a closed link always resumes TEXT.
exitLink_toText(sm, input, linkData) ==
    with(sm, markdownLink(linkData),
         BasicStateData(IF Len(input.nextTokens) > 0 THEN "TEXT" ELSE "END",
                        linkData.prevState))

\* The closing >: back to the state the link was met in, or END on the last token.
exitLink(sm, input, linkData) ==
    with(sm, markdownLink(linkData),
         BasicStateData(IF Len(input.nextTokens) > 0 THEN linkData.prevState ELSE "END",
                        linkData.prevState))

\* Mutant: every | starts the display text again.
LINK_lastPipe(sm, input) ==
    IF sm.currentState.state # "LINK"
    THEN Thrown
    ELSE LET linkData == sm.currentState IN
         IF input.currentToken = ">"
         THEN exitLink(sm, input, linkData)
         ELSE IF input.currentToken = "|"
         THEN with(sm, <<>>,
                   [linkData EXCEPT !.displayText = <<>>, !.parsingPhase = "displayText"])
         ELSE IF linkData.parsingPhase = "url"
         THEN with(sm, <<>>,
                   [linkData EXCEPT !.url = linkData.url \o <<input.currentToken>>])
         ELSE IF linkData.parsingPhase = "displayText"
         THEN with(sm, <<>>,
                   [linkData EXCEPT !.displayText =
                        orElse(linkData.displayText, <<>>) \o <<input.currentToken>>])
         ELSE sm

LINK(sm, input) ==
    IF sm.currentState.state # "LINK"
    THEN Thrown
    ELSE LET linkData == sm.currentState IN
         IF input.currentToken = ">"
         THEN exitLink(sm, input, linkData)
         ELSE IF input.currentToken = "|" /\ linkData.parsingPhase = "url"
         THEN with(sm, <<>>,
                   [linkData EXCEPT !.displayText = <<>>, !.parsingPhase = "displayText"])
         ELSE IF linkData.parsingPhase = "url"
         THEN with(sm, <<>>,
                   [linkData EXCEPT !.url = linkData.url \o <<input.currentToken>>])
         ELSE IF linkData.parsingPhase = "displayText"
         THEN with(sm, <<>>,
                   [linkData EXCEPT !.displayText =
                        orElse(linkData.displayText, <<>>) \o <<input.currentToken>>])
         ELSE sm

END(sm, input) == sm

----------------------------------------------------------------------------
(* BLOCKQUOTE *)

\* Mutant: a quote never runs over a newline.
isFollowedByBlockquote_never(input) == FALSE

isFollowedByBlockquote(input) ==
    Len(input.nextTokens) > 0 /\ input.nextTokens[1] = ">"

\* Leaving the quote on a newline that no > follows.
exitBlockquote(sm, input) ==
    with(sm,
         <<NL>> \o (IF hasDoubleNewline(input) THEN <<>> ELSE <<NL>>),
         BasicStateData("TEXT", "BLOCKQUOTE"))

BLOCKQUOTE(sm, input) ==
    IF input.currentToken = NL
    THEN IF ~isFollowedByBlockquote(input)
         THEN exitBlockquote(sm, input)
         ELSE copyToken(sm, input, "BLOCKQUOTE")
    ELSE IF isLinkStart(input)
    THEN enterLink(sm, "BLOCKQUOTE")
    ELSE IF isCodeBlockStart(input)
    THEN enterCodeBlock(sm, input, "BLOCKQUOTE")
    ELSE IF shouldEnterFormattedText(input, "*")
    THEN enterFormattedText(sm, "BOLD", <<"*", "*">>, "BLOCKQUOTE")
    ELSE IF shouldEnterFormattedText(input, "_")
    THEN enterFormattedText(sm, "ITALIC", <<"_">>, "BLOCKQUOTE")
    ELSE IF shouldEnterFormattedText(input, "~")
    THEN enterFormattedText(sm, "STRIKETHROUGH", <<"~", "~">>, "BLOCKQUOTE")
    ELSE IF isInlineCode(input)
    THEN enterFormattedText(sm, "INLINE_CODE", <<Backtick>>, "BLOCKQUOTE")
    ELSE IF input.currentToken = Bullet
    THEN with(sm, <<"*">>, BasicStateData("BLOCKQUOTE", sm.currentState.prevState))
    ELSE LET specialCharsResult ==
                 handleSpecialCharacters(sm, input, "BLOCKQUOTE", "BLOCKQUOTE") IN
         IF specialCharsResult # <<>>
         THEN specialCharsResult[1]
         ELSE copyToken(sm, input, "BLOCKQUOTE")

----------------------------------------------------------------------------
(* SKIP_TOKENS *)

\* Mutant: the machine leaves SKIP_TOKENS one token late.
SKIP_TOKENS_late(sm, input) ==
    IF sm.currentState.state # "SKIP_TOKENS"
    THEN Thrown
    ELSE LET tokensToSkip == sm.currentState.tokensToSkip IN
         IF tokensToSkip <= 0
         THEN with(sm, <<>>,
                   BasicStateData(sm.currentState.nextState, sm.currentState.prevState))
         ELSE with(sm, <<>>,
                   SkipTokensStateData(tokensToSkip - 1, sm.currentState.nextState,
                                       sm.currentState.prevState))

SKIP_TOKENS(sm, input) ==
    IF sm.currentState.state # "SKIP_TOKENS"
    THEN Thrown
    ELSE LET tokensToSkip == sm.currentState.tokensToSkip IN
         IF tokensToSkip <= 1
         THEN with(sm, <<>>,
                   BasicStateData(sm.currentState.nextState, sm.currentState.prevState))
         ELSE with(sm, <<>>,
                   SkipTokensStateData(tokensToSkip - 1, sm.currentState.nextState,
                                       sm.currentState.prevState))

----------------------------------------------------------------------------
(* Dispatch and the driver loop *)

\* Mutant: the BLOCKQUOTE handler is missing from the table.
states_noBlockquote ==
    {"BULLET_LIST", "TEXT", "BOLD", "ITALIC", "STRIKETHROUGH", "INLINE_CODE",
     "CODE_BLOCK", "LINK", "END", "SKIP_TOKENS"}

\* The keys of the dispatch table `states`.
states ==
    {"BULLET_LIST", "TEXT", "BOLD", "ITALIC", "STRIKETHROUGH", "INLINE_CODE",
     "CODE_BLOCK", "LINK", "END", "BLOCKQUOTE", "SKIP_TOKENS"}

\* The members that `states`, an object literal, inherits from
\* Object.prototype: the lookup states[tag] finds them, so its result is not
\* undefined and getState does not throw for them.
inheritedStates ==
    {"constructor", "toString", "toLocaleString", "valueOf", "hasOwnProperty",
     "isPrototypeOf", "propertyIsEnumerable", "__defineGetter__",
     "__defineSetter__", "__lookupGetter__", "__lookupSetter__", "__proto__"}

\* The string that Object.prototype.toString returns for no receiver.
ObjectUndefined == [string |-> "[object Undefined]"]

isString(r) == "string" \in DOMAIN r

\* An inherited member called as a handler, with (machine, input) and no
\* receiver: Object returns its first argument, toString returns a string,
\* and every other member raises a TypeError (no receiver to convert, or,
\* for __proto__, not a function).
inherited(key, sm) ==
    IF key = "constructor" THEN sm
    ELSE IF key = "toString" THEN ObjectUndefined
    ELSE Thrown

\* getState(machine)(machine, input): the handler of the current state, applied.
getState(sm, input) ==
    LET key == sm.currentState.state IN
    IF key \notin states
    THEN IF key \in inheritedStates THEN inherited(key, sm) ELSE Thrown
    ELSE CASE key = "BULLET_LIST"   -> BULLET_LIST(sm, input)
           [] key = "TEXT"          -> TEXT(sm, input)
           [] key = "BOLD"          -> BOLD(sm, input)
           [] key = "ITALIC"        -> ITALIC(sm, input)
           [] key = "STRIKETHROUGH" -> STRIKETHROUGH(sm, input)
           [] key = "INLINE_CODE"   -> INLINE_CODE(sm, input)
           [] key = "CODE_BLOCK"    -> CODE_BLOCK(sm, input)
           [] key = "LINK"          -> LINK(sm, input)
           [] key = "END"           -> END(sm, input)
           [] key = "BLOCKQUOTE"    -> BLOCKQUOTE(sm, input)
           [] key = "SKIP_TOKENS"   -> SKIP_TOKENS(sm, input)

\* Mutant: the token on which the fault was raised is dropped.
recover_dropsToken(sm, input) == sm

\* The catch branch: the state is kept and the token is added to the result.
recover(sm, input) == [sm EXCEPT !.result = sm.result \o <<input.currentToken>>]

\* What is left of a call when an error leaves the loop: a handler returned
\* a string, reading its state raised in the try block, the catch branch
\* spread the string (no currentState, result undefined + the token), and
\* the test for END after the catch raised again, uncaught.
Uncaught(input) ==
    [uncaught |-> "TypeError", result |-> <<"undefined", input.currentToken>>]

isUncaught(m) == "uncaught" \in DOMAIN m

\* The try block and the catch branch of one iteration.
tryCatch(sm, input) ==
    LET next == getState(sm, input) IN
    IF isThrown(next) THEN recover(sm, input)
    ELSE IF isString(next) THEN Uncaught(input)
    ELSE next

\* The loop runs while tokens remain and END has not been reached.
looping ==
    /\ i < Len(tokens)
    /\ ~isUncaught(machine)
    /\ machine.currentState.state # "END"

\* The conversion has returned machine.result.
returned == ~isUncaught(machine) /\ ~looping

\* Mutant: the machine is a variable of the module, shared by the calls.
machineOfCall_shared(own, other) == other

\* The machine that an iteration of a call reads: the call's own local.
machineOfCall(own, other) == own

\* One iteration of the loop: dispatch, the handler or the catch branch, i++.
iterate ==
    /\ looping
    /\ LET sm    == machineOfCall(machine, machine2)
           input == StateMachineInput(tokens, i)
       IN  machine' = tryCatch(sm, input)
    /\ i' = IF isUncaught(machine') THEN i ELSE i + 1
    /\ UNCHANGED <<tokens, faults, vars2>>

StepTEXT ==
    /\ machine.currentState.state = "TEXT"
    /\ iterate

StepBOLD ==
    /\ machine.currentState.state = "BOLD"
    /\ iterate

StepITALIC ==
    /\ machine.currentState.state = "ITALIC"
    /\ iterate

StepSTRIKETHROUGH ==
    /\ machine.currentState.state = "STRIKETHROUGH"
    /\ iterate

StepINLINE_CODE ==
    /\ machine.currentState.state = "INLINE_CODE"
    /\ iterate

StepCODE_BLOCK ==
    /\ machine.currentState.state = "CODE_BLOCK"
    /\ iterate

StepLINK ==
    /\ machine.currentState.state = "LINK"
    /\ iterate

StepBLOCKQUOTE ==
    /\ machine.currentState.state = "BLOCKQUOTE"
    /\ iterate

StepBULLET_LIST ==
    /\ machine.currentState.state = "BULLET_LIST"
    /\ iterate

StepSKIP_TOKENS ==
    /\ machine.currentState.state = "SKIP_TOKENS"
    /\ iterate


Next ==
    \/ StepTEXT
    \/ StepBOLD
    \/ StepITALIC
    \/ StepSTRIKETHROUGH
    \/ StepINLINE_CODE
    \/ StepCODE_BLOCK
    \/ StepLINK
    \/ StepBLOCKQUOTE
    \/ StepBULLET_LIST
    \/ StepSKIP_TOKENS

----------------------------------------------------------------------------
(* The conversion as a function of the input: the loop replayed for n      *)
(* iterations from a fresh machine.                                         *)

RECURSIVE runTo(_, _)
runTo(toks, n) ==
    IF n = 0 THEN createStateMachine
    ELSE LET sm == runTo(toks, n - 1) IN
         IF isUncaught(sm) \/ sm.currentState.state = "END" THEN sm
         ELSE tryCatch(sm, StateMachineInput(toks, n - 1))

slackMarkdownToMarkdown(toks) == runTo(toks, Len(toks)).result

----------------------------------------------------------------------------
(* Inputs.  An input is a concatenation of at most MaxPieces pieces, each  *)
(* a short run of characters, between an opening and a closing run.        *)

MaxPieces == 4

RECURSIVE Cat(_)
Cat(ps) == IF ps = <<>> THEN <<>> ELSE Head(ps) \o Cat(Tail(ps))

Runs(pieces) == UNION {[1..k -> pieces] : k \in 0..MaxPieces}

Inputs(wraps, pieces) ==
    {w[1] \o Cat(ps) \o w[2] : w \in wraps, ps \in Runs(pieces)}

NoWrap == {<<<<>>, <<>>>>}

pA == <<"a">>
pB == <<"b">>
pSpace == <<" ">>
pFormFeed == <<"\f">>
pNL == <<NL>>
pStar == <<"*">>
pUnderscore == <<"_">>
pTilde == <<"~">>
pBacktick == <<Backtick>>
pFence == <<Backtick, Backtick, Backtick>>
pBullet == <<Bullet>>
pBulletItem == <<Bullet, " ">>
pOrdered == <<"1", ".", " ">>
pQuote == <<">">>
pPipe == <<"|">>
pLinkOpen == <<"<", "h", "t", "t", "p", ":", "/", "/", "x">>
pLinkTextOpen == pLinkOpen \o <<"|", "b">>

\* Inputs that between them reach every state of the machine.
Corpus ==
    { Cat(<<pBulletItem, pStar, pB, pStar, pSpace, pUnderscore, pB, pUnderscore,
            pSpace, pTilde, pB, pTilde, pSpace, pBacktick, pB, pBacktick, pNL,
            pOrdered, pB, pNL, pB>>),
      Cat(<<pQuote, pB, pSpace, pLinkOpen, pPipe, pB, pQuote, pNL,
            pFence, pB, EntityGt, pFence>>) }

\* A call on one of inputs or of the corpus, and a second call on one of
\* inputs2; neither has run an iteration.
InitCalls(inputs, inputs2) ==
    /\ tokens \in inputs \cup Corpus
    /\ i = 0
    /\ machine = createStateMachine
    /\ faults = 0
    /\ tokens2 \in inputs2
    /\ i2 = 0
    /\ machine2 = createStateMachine

\* One call; the second is a call on the empty string, which runs no
\* iteration.
InitWith(inputs) == InitCalls(inputs, {<<>>})

\* Plain text, white space (a form feed too), list markers and the three
\* emphasis markers.
TextInputs ==
    Inputs(NoWrap,
           {pA, pSpace, pFormFeed, pNL, pOrdered, pStar, pUnderscore, pTilde})

Init == InitWith(TextInputs)

Spec == Init /\ [][Next]_vars

----------------------------------------------------------------------------
(* What holds of every run *)

\* The machine is the replay of the loop on the tokens consumed so far.
Deterministic == machine = runTo(tokens, i)

----------------------------------------------------------------------------
(* Vocabulary of the properties *)

Range(s) == {s[k] : k \in 1..Len(s)}

\* The characters the machine gives a meaning to.
MarkupChars == {"*", "_", "~", Backtick, "<", ">", "&", Bullet}

\* Position k (from 1) is the first character of a line of toks.
isLineStart(toks, k) == k = 1 \/ toks[k - 1] = NL

\* Position k of toks is plain text: no markup character, no line-initial digit.
isPlainAt(toks, k) ==
    /\ toks[k] \notin MarkupChars
    /\ ~(isLineStart(toks, k) /\ isDigit(toks[k]))

isPlainText(toks) == \A k \in 1..Len(toks) : isPlainAt(toks, k)

\* The Markdown marker of a Slack emphasis marker.
markdownOf(tok) ==
    IF tok = "*" THEN <<"*", "*">>
    ELSE IF tok = "~" THEN <<"~", "~">>
    ELSE <<tok>>

\* toks with the two markers at p and q rewritten, every other token kept.
withMarkers(toks, p, q) ==
    Cat([k \in 1..Len(toks) |-> IF k \in {p, q} THEN markdownOf(toks[k]) ELSE <<toks[k]>>])

\* p < q hold the only two markup characters of toks, one emphasis marker
\* twice, with no whitespace right after the first or right before the second.
isOnlyPair(toks, p, q) ==
    /\ p < q
    /\ toks[p] \in {"*", "_", "~"}
    /\ toks[q] = toks[p]
    /\ \A k \in (1..Len(toks)) \ {p, q} : isPlainAt(toks, k)
    /\ ~isWhitespace(toks[p + 1])
    /\ ~isWhitespace(toks[q - 1])

----------------------------------------------------------------------------
(* C1 *)

\* C1: an input with no markup character and no digit at the start of a line
\* (the empty input included) is returned unchanged.
C1_PlainTextUnchanged ==
    (returned /\ isPlainText(tokens)) => machine.result = tokens

\* A plain input of several lines with a digit inside a line has been converted.
C1_Witness ==
    /\ returned
    /\ isPlainText(tokens)
    /\ {NL, "1", "a"} \subseteq Range(tokens)
    /\ machine.result = tokens

----------------------------------------------------------------------------
(* C2 *)

\* C2: when the only markup of the input is one pair of the same emphasis
\* marker with no whitespace inside its two ends, the output is the input with
\* both * doubled, both ~ doubled, both _ kept, and all else unchanged.
C2_OnePairConverted ==
    returned =>
        \A p, q \in 1..Len(tokens) :
            isOnlyPair(tokens, p, q) => machine.result = withMarkers(tokens, p, q)

\* A bold pair with text after it has been converted.
C2_Witness ==
    /\ returned
    /\ \E p, q \in 1..Len(tokens) :
          /\ isOnlyPair(tokens, p, q)
          /\ tokens[p] = "*"
          /\ q = p + 2
          /\ q < Len(tokens)
    /\ Len(machine.result) = Len(tokens) + 2

----------------------------------------------------------------------------
(* C3 *)

\* Links between plain text, emphasis markers and line breaks.
LinkInputs ==
    Inputs(NoWrap, {pLinkOpen, pLinkTextOpen, pPipe, pQuote, pA, pStar, pSpace, pNL})

InitLink == InitWith(LinkInputs)

SpecLink == InitLink /\ [][Next]_vars

\* The state the machine is in before it reads token k (from 1) of toks.
stateBefore(toks, k) == runTo(toks, k - 1).currentState.state

\* With the machine in LINK after n tokens: the position (from 1) of the <
\* that opened the link, the last token read while not in LINK.
linkStart(toks, n) ==
    CHOOSE s \in 1..n :
        /\ stateBefore(toks, s) # "LINK"
        /\ \A k \in (s + 1)..n : stateBefore(toks, k) = "LINK"

\* The part of s before its first |, and the part after it.
beforePipe(s) == IF "|" \in Range(s) THEN SubSeq(s, 1, findIndex(s, "|")) ELSE s

afterPipe(s) == SubSeq(s, findIndex(s, "|") + 2, Len(s))

\* [text](url) for the characters between < and >: the url is used as the
\* text when no | is given.
linkMarkdown(inner) ==
    <<"[">> \o (IF "|" \in Range(inner) THEN afterPipe(inner) ELSE beforePipe(inner))
        \o <<"]", "(">> \o beforePipe(inner) \o <<")">>

\* The characters between < and > spell url|text with a text, or url alone.
isWellFormedLink(inner) == "|" \in Range(inner) => afterPipe(inner) # <<>>

\* Token e (from 1) is the > that closes a link opened by the < at token s.
isLinkSpan(toks, s, e) ==
    /\ s < e
    /\ toks[e] = ">"
    /\ stateBefore(toks, s) \notin {"LINK", "END"}
    /\ \A k \in (s + 1)..e : stateBefore(toks, k) = "LINK"

\* out is base with ins spliced in at some position.
isSplice(out, base, ins) ==
    \E k \in 0..Len(base) :
        out = SubSeq(base, 1, k) \o ins \o SubSeq(base, k + 1, Len(base))

\* C3 as stated: every link is replaced by [text](url) and the rest of the
\* output is what the input without the link converts to.
C3_AsIfLinkAbsent ==
    returned =>
        \A s, e \in 1..Len(tokens) :
            (isLinkSpan(tokens, s, e) /\ isWellFormedLink(SubSeq(tokens, s + 1, e - 1)))
            => isSplice(machine.result,
                        slackMarkdownToMarkdown(
                            SubSeq(tokens, 1, s - 1) \o SubSeq(tokens, e + 1, Len(tokens))),
                        linkMarkdown(SubSeq(tokens, s + 1, e - 1)))

\* The step that reads the > closing a link.
closesLink == looping /\ machine.currentState.state = "LINK" /\ tokens[i + 1] = ">"

\* C3 (amended): <url|text> with a text is replaced by [text](url) and <url>
\* by [url](url): the step that reads the closing > appends exactly that to
\* the output produced before the <, so <, the first | and > are not output;
\* the machine then resumes the state it was in at the < (END on the last
\* token).
C3_LinkReplaced ==
    [][closesLink =>
          LET s     == linkStart(tokens, i)
              inner == SubSeq(tokens, s + 1, i)
              open  == runTo(tokens, s - 1)
          IN  /\ tokens[s] = "<"
              /\ \/ startsWith(beforePipe(inner), <<"h", "t", "t", "p", ":", "/", "/">>)
                 \/ startsWith(beforePipe(inner), <<"h", "t", "t", "p", "s", ":", "/", "/">>)
              /\ isWellFormedLink(inner) =>
                     machine'.result = open.result \o linkMarkdown(inner)
              /\ machine'.currentState.state =
                     IF i + 1 < Len(tokens) THEN open.currentState.state ELSE "END"
      ]_vars

\* A link with a display text, met inside bold text, has just been closed.
C3_Witness ==
    /\ i > 0
    /\ tokens[i] = ">"
    /\ stateBefore(tokens, i) = "LINK"
    /\ runTo(tokens, i - 1).currentState.parsingPhase = "displayText"
    /\ runTo(tokens, i - 1).currentState.displayText # <<>>
    /\ machine.currentState.state = "BOLD"

----------------------------------------------------------------------------
(* C4 *)

\* Opening and closing runs that put what lies between them in each state.
StateWraps ==
    { <<<<>>, <<>>>>,
      <<pStar, pStar>>,
      <<pUnderscore, pUnderscore>>,
      <<pTilde, pTilde>>,
      <<pBacktick, pBacktick>>,
      <<pFence, pFence>>,
      <<pQuote, pNL \o pB>>,
      <<pBulletItem, pNL \o pB>>,
      <<pLinkOpen, pQuote>>,
      <<pLinkOpen \o pPipe, pQuote>> }

\* Entities and plain characters in every state.
EntityInputs == Inputs(StateWraps, {EntityGt, EntityLt, EntityAmp, pB})

InitEntity == InitWith(EntityInputs)

SpecEntity == InitEntity /\ [][Next]_vars

Entities == {EntityGt, EntityLt, EntityAmp}

\* The character an entity stands for.
decoded(entity) ==
    IF entity = EntityGt THEN ">" ELSE IF entity = EntityLt THEN "<" ELSE "&"

\* The states whose handlers look for entities.
EntityStates ==
    {"TEXT", "BOLD", "ITALIC", "STRIKETHROUGH", "INLINE_CODE", "CODE_BLOCK",
     "BLOCKQUOTE", "BULLET_LIST"}

\* The last token read ends an entity whose & was read in state st.
entityJustRead(entity, st) ==
    /\ i >= Len(entity)
    /\ SubSeq(tokens, i - Len(entity) + 1, i) = entity
    /\ stateBefore(tokens, i - Len(entity) + 1) = st

\* The characters that the inputs hold only inside entities.
EntityLetters == {"g", "l", "m", ";"}

\* Every entity letter of toks lies in a complete entity.
onlyInEntities(toks) ==
    \A k \in 1..Len(toks) :
        toks[k] \in EntityLetters =>
            \E entity \in Entities, s \in 1..k :
                /\ k < s + Len(entity)
                /\ s + Len(entity) - 1 <= Len(toks)
                /\ SubSeq(toks, s, s + Len(entity) - 1) = entity

\* C4 as stated: in every state, LINK included, a complete entity leaves its
\* decoded character in the output and none of its raw characters.
C4_DecodedEverywhere ==
    (returned /\ onlyInEntities(tokens)) => Range(machine.result) \cap EntityLetters = {}

\* C4 (amended): a complete entity whose & is read in TEXT, BOLD, ITALIC,
\* STRIKETHROUGH, INLINE_CODE, CODE_BLOCK, BLOCKQUOTE or BULLET_LIST adds its
\* decoded character to the output and nothing else; one whose & is read in
\* LINK is kept raw in the link's url or display text.
C4_EntityDecoded ==
    \A entity \in Entities :
        LET before == runTo(tokens, i - Len(entity)) IN
        /\ \A st \in EntityStates :
              entityJustRead(entity, st) =>
                  /\ machine.result = before.result \o <<decoded(entity)>>
                  /\ machine.currentState.state = st
        /\ entityJustRead(entity, "LINK") =>
              /\ machine.result = before.result
              /\ machine.currentState.state = "LINK"
              /\ IF machine.currentState.parsingPhase = "url"
                 THEN machine.currentState.url = before.currentState.url \o entity
                 ELSE machine.currentState.displayText =
                          orElse(before.currentState.displayText, <<>>) \o entity

\* An &amp; has just been decoded inside inline code.
C4_Witness ==
    /\ entityJustRead(EntityAmp, "INLINE_CODE")
    /\ machine.result[Len(machine.result)] = "&"

----------------------------------------------------------------------------
(* C5 *)

\* Fences, line breaks, code text, single backticks and an entity.
FenceInputs == Inputs(NoWrap, {pFence, pNL, pA, pBacktick, EntityGt})

InitFence == InitWith(FenceInputs)

SpecFence == InitFence /\ [][Next]_vars

\* The last three tokens read are a fence whose first backtick was read in st.
fenceJustRead(st) ==
    /\ i >= 3
    /\ SubSeq(tokens, i - 2, i) = pFence
    /\ stateBefore(tokens, i - 2) = st

\* The token before the last one read began a fence that was read in st.
fenceReadBeforeLast(st) ==
    /\ i >= 4
    /\ SubSeq(tokens, i - 3, i - 1) = pFence
    /\ stateBefore(tokens, i - 3) = st

\* s ends with the run e.
endsWith(s, e) == Len(s) >= Len(e) /\ SubSeq(s, Len(s) - Len(e) + 1, Len(s)) = e

\* C5: a fence read in TEXT opens a code block and is output followed by a
\* newline, of which one is added exactly when the next input token is not a
\* newline; the fence that closes the block is output preceded by a newline,
\* of which one is added exactly when the previous input token is not a
\* newline.  Nothing else is added by either fence.
C5_FenceNewlines ==
    /\ fenceJustRead("TEXT") =>
          /\ machine.result =
                 runTo(tokens, i - 3).result \o pFence
                     \o (IF i < Len(tokens) /\ tokens[i + 1] = NL THEN <<>> ELSE <<NL>>)
          /\ machine.currentState.state = "CODE_BLOCK"
    /\ fenceReadBeforeLast("TEXT") =>
          LET open == runTo(tokens, i - 4).result IN
          SubSeq(machine.result, 1, Len(open) + 4) = open \o pFence \o <<NL>>
    /\ fenceJustRead("CODE_BLOCK") =>
          /\ machine.result =
                 runTo(tokens, i - 3).result
                     \o (IF tokens[i - 3] = NL THEN <<>> ELSE <<NL>>) \o pFence
          /\ endsWith(machine.result, <<NL>> \o pFence)
          /\ machine.currentState.state = "TEXT"

\* A block whose opening fence had its newline and whose closing fence had
\* none has been closed.
C5_Witness ==
    /\ fenceJustRead("CODE_BLOCK")
    /\ tokens[i - 3] = "a"
    /\ SubSeq(tokens, 1, 4) = pFence \o <<NL>>
    /\ machine.result = pFence \o <<NL>> \o SubSeq(tokens, 5, i - 3) \o <<NL>> \o pFence

----------------------------------------------------------------------------
(* Lines and inline content *)

\* Inline content, each piece complete in itself.
pBold == <<"*", "b", "*">>
pBoldEntity == <<"*">> \o EntityGt \o <<"*">>
pLink == pLinkOpen \o <<">">>

\* The position (from 1) of the first character of the line that holds n.
lineStartOf(toks, n) == CHOOSE L \in 1..n :
    /\ isLineStart(toks, L)
    /\ \A k \in (L + 1)..n : ~isLineStart(toks, k)

\* The line that starts at position L of toks starts with a list marker.
isListLine(toks, L) ==
    \/ isBulletListMarker(StateMachineInput(toks, L - 1))
    \/ isOrderedListMarker(StateMachineInput(toks, L - 1))

\* The line that starts at position L of toks starts with >.
isQuoteLine(toks, L) == toks[L] = ">"

\* The last token read is the newline that ends a list line / a quote line.
listLineEnded ==
    i >= 1 /\ tokens[i] = NL /\ isListLine(tokens, lineStartOf(tokens, i))

quoteLineEnded ==
    i >= 1 /\ tokens[i] = NL /\ isQuoteLine(tokens, lineStartOf(tokens, i))

\* What the last step appended to the output is exactly out.
appended(out) == machine.result = runTo(tokens, i - 1).result \o out

----------------------------------------------------------------------------
(* C6 *)

\* Lists of bullet and ordered items that hold text, a bold span, a bold
\* span with an entity, and links, followed or not by other lines.
ListInputs ==
    Inputs({<<pBulletItem, <<>>>>, <<pOrdered, <<>>>>},
           {pBulletItem, pOrdered, pNL, pB, pBold, pBoldEntity, pLink})

InitList == InitWith(ListInputs)

SpecList == InitList /\ [][Next]_vars

\* C6: the newline that ends the last line of a list is output followed by
\* one more newline when the next line is not a list item and not empty, and
\* alone when an empty line follows or the input ends, whatever the items
\* hold; and a list that ends the input without a newline gets none.
C6_BlankLineAfterList ==
    /\ (listLineEnded /\ i < Len(tokens) /\ ~isListLine(tokens, i + 1)) =>
           appended(IF tokens[i + 1] = NL THEN <<NL>> ELSE <<NL, NL>>)
    /\ (listLineEnded /\ i = Len(tokens)) => appended(<<NL>>)
    /\ (/\ i >= 1
        /\ i = Len(tokens)
        /\ tokens[i] # NL
        /\ isListLine(tokens, lineStartOf(tokens, i))) =>
           ~endsWith(machine.result, <<NL>>)

----------------------------------------------------------------------------
(* C7 *)

\* Quote lines that hold text, a bold span, a bold span with an entity, and
\* links, followed or not by other lines.
QuoteInputs ==
    Inputs({<<pQuote, <<>>>>}, {pQuote, pNL, pB, pBold, pBoldEntity, pLink})

InitQuote == InitWith(QuoteInputs)

SpecQuote == InitQuote /\ [][Next]_vars

\* C7: the newline that ends the last line of a blockquote is output followed
\* by one more newline when the next line does not start with > and is not
\* empty, and alone when an empty line follows.
C7_BlankLineAfterQuote ==
    (quoteLineEnded /\ i < Len(tokens) /\ tokens[i + 1] # ">") =>
        appended(IF tokens[i + 1] = NL THEN <<NL>> ELSE <<NL, NL>>)

----------------------------------------------------------------------------
(* C8 *)

FormattedStates == {"BOLD", "ITALIC", "STRIKETHROUGH", "INLINE_CODE"}

OpenerStates == {"TEXT", "BLOCKQUOTE", "BULLET_LIST"}

\* The marker that closes a formatted state.
formatTokenOf(st) ==
    CASE st = "BOLD" -> "*"
      [] st = "ITALIC" -> "_"
      [] st = "STRIKETHROUGH" -> "~"
      [] st = "INLINE_CODE" -> Backtick

\* Spans of the four kinds, opened in TEXT, in a list item and in a quote,
\* that hold text, whitespace, entities and links.
SpanInputs ==
    Inputs({<<<<>>, <<>>>>, <<pBulletItem, <<>>>>, <<pQuote, <<>>>>},
           {pA, pSpace, pStar, pUnderscore, pTilde, pBacktick, EntityGt, pLink})

InitSpan == InitWith(SpanInputs)

SpecSpan == InitSpan /\ [][Next]_vars

\* The token at p opened a span from one of the three opener states, and the
\* token at q is the first closing marker that the span's handler reads.
isSpan(toks, p, q) ==
    LET st == runTo(toks, p).currentState.state IN
    /\ p < q
    /\ stateBefore(toks, p) \in OpenerStates
    /\ st \in FormattedStates
    /\ \A k \in (p + 1)..q : stateBefore(toks, k) \in {st, "LINK", "SKIP_TOKENS"}
    /\ stateBefore(toks, q) = st
    /\ toks[q] = formatTokenOf(st)
    /\ \A k \in (p + 1)..(q - 1) :
           ~(stateBefore(toks, k) = st /\ toks[k] = formatTokenOf(st))

\* C8: when the closing marker of a span is read with tokens remaining, the
\* machine resumes the state the span was opened from, whatever the span
\* holds.
C8_ResumesOpener ==
    \A p \in 1..(i - 1) :
        (isSpan(tokens, p, i) /\ i < Len(tokens)) =>
            machine.currentState.state = stateBefore(tokens, p)

----------------------------------------------------------------------------
(* C9 *)

pLinkStar == pLinkOpen \o <<"|", "*", ">">>

\* Emphasis markers next to whitespace (a space, a form feed), text, an
\* entity and a link.
MarkerInputs ==
    Inputs({<<<<>>, <<>>>>, <<pBulletItem, <<>>>>, <<pQuote, <<>>>>},
           {pA, pSpace, pFormFeed, pStar, pUnderscore, pTilde, EntityGt,
            pLinkStar})

InitMarker == InitWith(MarkerInputs)

SpecMarker == InitMarker /\ [][Next]_vars

\* C9: a marker followed by whitespace never opens a span, a marker preceded
\* by whitespace never closes one, and either is output as itself.
C9_WhitespaceAdjacentLiteral ==
    LET st == stateBefore(tokens, i)
        tok == tokens[i] IN
    (i >= 1 /\ tok \in {"*", "_", "~"}) =>
        /\ (st \in OpenerStates /\ i < Len(tokens) /\ isWhitespace(tokens[i + 1])) =>
               /\ appended(<<tok>>)
               /\ machine.currentState.state \notin FormattedStates
        /\ (/\ st \in FormattedStates \ {"INLINE_CODE"}
            /\ tok = formatTokenOf(st)
            /\ isWhitespace(tokens[i - 1])) =>
               /\ appended(<<tok>>)
               /\ machine.currentState.state = st

----------------------------------------------------------------------------
(* C10 *)

\* The content of a code block: markers, single backticks and fences, the
\* bullet and > after a newline or not, an entity and a link.
CodeInputs ==
    Inputs({<<pFence, <<>>>>},
           {pStar, pUnderscore, pTilde, pBacktick, pBullet, pQuote, pNL,
            EntityGt, pLink})

InitCode == InitWith(CodeInputs)

SpecCode == InitCode /\ [][Next]_vars

\* The step copies the token it reads and stays in CODE_BLOCK.
copiedInCodeBlock ==
    /\ machine'.result = machine.result \o <<tokens[i + 1]>>
    /\ machine'.currentState.state = "CODE_BLOCK"

\* C10: in CODE_BLOCK the characters * _ ~ U+2022 > and a backtick that does
\* not start a run of three are copied and the state is kept; every token is,
\* unless it starts a run of three backticks, a link or an entity.
C10_CodeBlockLiteral ==
    [][(looping /\ machine.currentState.state = "CODE_BLOCK") =>
           LET input == StateMachineInput(tokens, i)
               tok == tokens[i + 1] IN
           /\ (\/ tok \in {"*", "_", "~", Bullet, ">"}
               \/ (tok = Backtick /\ ~isCodeBlockStart(input))) => copiedInCodeBlock
           /\ ~(\/ isCodeBlockStart(input)
                \/ isLinkStart(input)
                \/ \E entity \in Entities : isHtmlEntity(input, entity)) =>
                  copiedInCodeBlock]_vars

\* A bullet at the start of a line and a pair of markers have been copied
\* inside a code block.
C10_Witness ==
    /\ tokens = pFence \o <<NL, Bullet, "*", "*">>
    /\ i = Len(tokens)
    /\ machine.result = tokens
    /\ machine.currentState.state = "CODE_BLOCK"

----------------------------------------------------------------------------
(* C11 *)

pAmpersand == <<"&">>
pLess == <<"<">>

\* Openers that may lack a partner, after text, in a list item and in a quote.
OpenerInputs ==
    Inputs({<<<<>>, <<>>>>, <<pBulletItem, <<>>>>, <<pQuote, <<>>>>},
           {pA, pSpace, pStar, pUnderscore, pBacktick, pAmpersand, pLess, pLinkOpen})

InitOpener == InitWith(OpenerInputs)

SpecOpener == InitOpener /\ [][Next]_vars

\* tok occurs in toks after position p.
occursAfter(toks, p, tok) == \E k \in (p + 1)..Len(toks) : toks[k] = tok

\* The token at p is read in one of the opener states and opens nothing that
\* the rest of toks closes: a marker or a backtick with no later partner, an
\* & that starts no entity, a < that starts no link, or a link start with no
\* later >.
isUnclosedOpener(toks, p) ==
    LET input == StateMachineInput(toks, p - 1) IN
    /\ stateBefore(toks, p) \in OpenerStates
    /\ \/ toks[p] \in {"*", "_", "~", Backtick} /\ ~occursAfter(toks, p, toks[p])
       \/ toks[p] = "&" /\ \A entity \in Entities : ~isHtmlEntity(input, entity)
       \/ toks[p] = "<" /\ ~isLinkStart(input)
       \/ isLinkStart(input) /\ ~occursAfter(toks, p, ">")

\* No token after position p is a markup character or a newline.
isPlainTail(toks, p) ==
    \A k \in (p + 1)..Len(toks) : toks[k] \notin MarkupChars \cup {NL}

\* C11: when an opener is never closed and only plain characters follow it,
\* the conversion returns an output that ends with every input character
\* from the opener to the end of the input.
C11_UnclosedOpenerLiteral ==
    returned =>
        \A p \in 1..Len(tokens) :
            (isUnclosedOpener(tokens, p) /\ isPlainTail(tokens, p)) =>
                endsWith(machine.result, SubSeq(tokens, p, Len(tokens)))

----------------------------------------------------------------------------
(* C12 *)

\* Quote lines and plain lines of text, ended by a newline or not.
QuoteEndInputs == Inputs({<<pQuote, <<>>>>}, {pQuote, pNL, pB, pSpace})

InitQuoteEnd == InitWith(QuoteEndInputs)

SpecQuoteEnd == InitQuoteEnd /\ [][Next]_vars

\* The last token of the input has been read and it belongs to a quote line,
\* as a character of the line or as the newline that ends it.
quoteEndsInput ==
    /\ i >= 1
    /\ i = Len(tokens)
    /\ isQuoteLine(tokens, lineStartOf(tokens, i))

\* C12: when the input ends with a quote line, with or without the newline
\* that ends the line, the last step appends the last token and nothing
\* more: no newline is added.
C12_NoNewlineAfterLastQuote ==
    quoteEndsInput => appended(<<tokens[i]>>)

----------------------------------------------------------------------------
(* C13 *)

\* Lines that begin with > or with its entity, and plain lines.
EntityQuoteInputs == Inputs(NoWrap, {EntityGt, pQuote, pNL, pB, pSpace})

InitEntityQuote == InitWith(EntityQuoteInputs)

SpecEntityQuote == InitEntityQuote /\ [][Next]_vars

\* The line that starts at position L of toks starts with the entity of >.
isEntityQuoteLine(toks, L) ==
    L + 3 <= Len(toks) /\ SubSeq(toks, L, L + 3) = EntityGt

isAnyQuoteLine(toks, L) == isQuoteLine(toks, L) \/ isEntityQuoteLine(toks, L)

\* C13: a line that begins with the entity of > is a quote line like one that
\* begins with >: its entity is output as >, the newline before it is output
\* alone when the line before is a quote line of either kind, and the newline
\* that ends it is output alone when a quote line of either kind or an empty
\* line follows and followed by one more newline when other content follows.
C13_EntityQuoteLine ==
    /\ (i >= 1 /\ isLineStart(tokens, i) /\ isEntityQuoteLine(tokens, i)) =>
           appended(<<">">>)
    /\ (/\ i >= 1
        /\ i < Len(tokens)
        /\ tokens[i] = NL
        /\ isAnyQuoteLine(tokens, lineStartOf(tokens, i))
        /\ \/ isEntityQuoteLine(tokens, lineStartOf(tokens, i))
           \/ isEntityQuoteLine(tokens, i + 1)) =>
           appended(IF isAnyQuoteLine(tokens, i + 1) \/ tokens[i + 1] = NL
                    THEN <<NL>> ELSE <<NL, NL>>)

----------------------------------------------------------------------------
(* C14 *)

\* Bullet glyphs and asterisks at the start of lines and inside them, in
\* text, in lists and in a quote.
BulletInputs ==
    Inputs({<<<<>>, <<>>>>, <<pQuote, <<>>>>},
           {pBullet, pStar, pSpace, pNL, pB, pOrdered})

InitBullet == InitWith(BulletInputs)

SpecBullet == InitBullet /\ [][Next]_vars

\* Position k of toks holds a bullet glyph, or an asterisk and then a space.
isBulletAt(toks, k) ==
    /\ k <= Len(toks)
    /\ \/ toks[k] = Bullet
       \/ toks[k] = "*" /\ k < Len(toks) /\ toks[k + 1] = " "

\* C14: a step that reads U+2022 in TEXT, BULLET_LIST or BLOCKQUOTE appends *
\* in its place; at the start of a line in TEXT or BULLET_LIST, the glyph and
\* an asterisk followed by a space are both output as * and leave the machine
\* in BULLET_LIST; and the newline between two list lines of either marker is
\* copied alone.
C14_BulletsUniform ==
    [][looping =>
           LET st == machine.currentState.state
               tok == tokens[i + 1] IN
           /\ (st \in OpenerStates /\ tok = Bullet) =>
                  machine'.result = machine.result \o <<"*">>
           /\ (/\ st \in {"TEXT", "BULLET_LIST"}
               /\ isLineStart(tokens, i + 1)
               /\ isBulletAt(tokens, i + 1)) =>
                  /\ machine'.result = machine.result \o <<"*">>
                  /\ machine'.currentState.state = "BULLET_LIST"
           /\ (st = "BULLET_LIST" /\ tok = NL /\ isBulletAt(tokens, i + 2)) =>
                  /\ machine'.result = machine.result \o <<NL>>
                  /\ machine'.currentState.state = "BULLET_LIST"]_vars

\* A list of a glyph item and an asterisk item has been read.
C14_Witness ==
    /\ tokens = <<Bullet, NL, "*", " ">>
    /\ i = Len(tokens)
    /\ machine.result = <<"*", NL, "*", " ">>
    /\ machine.currentState.state = "BULLET_LIST"

----------------------------------------------------------------------------
(* C15 *)

pThree == <<"3", ".", " ">>
pTen == <<"1", "0", ".", " ">>
pDigit == <<"3">>

\* Ordered items with one-digit and two-digit numbers in any order, digits
\* and text.
OrderedInputs == Inputs(NoWrap, {pThree, pTen, pDigit, pNL, pB})

InitOrdered == InitWith(OrderedInputs)

SpecOrdered == InitOrdered /\ [][Next]_vars

\* The length of the ordered-list marker (digits, a period, a space) that
\* starts at position L of toks; 0 when none starts there.
orderedMarkerLen(toks, L) ==
    LET n == digitRun(SubSeq(toks, L, Len(toks))) IN
    IF /\ n >= 1
       /\ L + n + 1 <= Len(toks)
       /\ toks[L + n] = "."
       /\ toks[L + n + 1] = " "
    THEN n + 2 ELSE 0

\* Position k of toks lies in an ordered-list marker at the start of a line.
inOrderedMarker(toks, k) ==
    \E L \in 1..k :
        isLineStart(toks, L) /\ k < L + orderedMarkerLen(toks, L)

\* Every line of toks starts with an ordered-list marker followed by digits
\* and letters only.
isOrderedList(toks) ==
    /\ Len(toks) > 0
    /\ \A k \in 1..Len(toks) :
           /\ isLineStart(toks, k) => orderedMarkerLen(toks, k) > 0
           /\ inOrderedMarker(toks, k) \/ toks[k] = NL \/ isDigit(toks[k]) \/ toks[k] = "b"

\* C15: a step that reads a character of a line-initial ordered-list marker
\* appends that character and nothing else, and an input of ordered-list
\* lines only is returned as it is.
C15_OrderedMarkersCopied ==
    /\ []((returned /\ isOrderedList(tokens)) => machine.result = tokens)
    /\ [][(looping /\ inOrderedMarker(tokens, i + 1)) =>
              machine'.result = machine.result \o <<tokens[i + 1]>>]_vars

\* A two-item list with a non-sequential, multi-digit numbering is returned.
C15_Witness ==
    /\ tokens = pThree \o pB \o pNL \o pTen
    /\ returned
    /\ machine.result = tokens

----------------------------------------------------------------------------
(* C16 *)

pBoldTwoLines == <<"*", "b", NL, "b", "*">>

\* The character > at the start of lines, inside them and inside code
\* blocks, with text, asterisks and a bold span that runs over two lines.
QuoteStartInputs ==
    Inputs(NoWrap, {pQuote, pNL, pB, pStar, pBoldTwoLines, pFence})

InitQuoteStart == InitWith(QuoteStartInputs)

SpecQuoteStart == InitQuoteStart /\ [][Next]_vars

\* The last step entered BLOCKQUOTE and the machine was not in BLOCKQUOTE
\* before any earlier token of the same line.
enteredQuoteFirstOnLine ==
    /\ i >= 1
    /\ machine.currentState.state = "BLOCKQUOTE"
    /\ \A k \in lineStartOf(tokens, i)..i : stateBefore(tokens, k) # "BLOCKQUOTE"

\* The token at k is a > read in CODE_BLOCK, or in TEXT inside a line.
isLiteralQuoteChar(toks, k) ==
    /\ toks[k] = ">"
    /\ \/ stateBefore(toks, k) = "CODE_BLOCK"
       \/ stateBefore(toks, k) = "TEXT" /\ ~isLineStart(toks, k)

\* C16: BLOCKQUOTE is entered for the first time on a line only by a step
\* that reads > at the start of a line in TEXT; a > inside a line of text or
\* in a code block is copied and enters no blockquote, and the newline that
\* ends its line is copied alone.
C16_QuoteOnlyAtLineStart ==
    /\ enteredQuoteFirstOnLine =>
           /\ tokens[i] = ">"
           /\ isLineStart(tokens, i)
           /\ stateBefore(tokens, i) = "TEXT"
    /\ (i >= 1 /\ isLiteralQuoteChar(tokens, i)) =>
           /\ appended(<<">">>)
           /\ machine.currentState.state # "BLOCKQUOTE"
    /\ (/\ i >= 1
        /\ tokens[i] = NL
        /\ \E k \in lineStartOf(tokens, i)..(i - 1) : isLiteralQuoteChar(tokens, k)) =>
           appended(<<NL>>)

----------------------------------------------------------------------------
(* C17 *)

\* Inputs that end in text, in a closing marker, in a link, in an entity and
\* in a newline, in text, in a list item and in a quote.
EndInputs ==
    Inputs({<<<<>>, <<>>>>, <<pBulletItem, <<>>>>, <<pQuote, <<>>>>},
           {pA, pStar, pBacktick, EntityGt, pLink, pNL})

InitEnd == InitWith(EndInputs)

SpecEnd == InitEnd /\ [][Next]_vars

\* C17: every step of the driver consumes one token, a SKIP_TOKENS step
\* like any other though it outputs nothing; END is the state only once the
\* last token has been read; so the conversion returns after as many steps
\* as the input has tokens.
C17_OneStepPerToken ==
    /\ [](machine.currentState.state = "END" => i = Len(tokens))
    /\ [](returned => i = Len(tokens))
    /\ [][/\ i' = i + 1
          /\ i' <= Len(tokens)
          /\ machine.currentState.state = "SKIP_TOKENS" =>
                 machine'.result = machine.result]_vars

\* A conversion that skipped tokens has reached END on its last token.
C17_Witness ==
    /\ tokens = EntityGt \o <<"*", "a", "*">>
    /\ i = Len(tokens)
    /\ machine.currentState.state = "END"

----------------------------------------------------------------------------
(* C18 *)

\* The states that run on a token and hold basic state data.
ResumeKeys == states \ {"END", "LINK", "SKIP_TOKENS"}

\* The fields of the three variants of the state data.
BasicFields == {"state", "prevState"}
LinkFields == {"state", "url", "displayText", "parsingPhase", "prevState"}
SkipTokensFields == {"state", "tokensToSkip", "nextState", "prevState"}

\* The state data is of the variant that its tag names.
isOwnVariant(st) ==
    DOMAIN st = CASE st.state = "LINK" -> LinkFields
                  [] st.state = "SKIP_TOKENS" -> SkipTokensFields
                  [] OTHER -> BasicFields

\* C18: the state tag is always a key of the dispatch table, prevState and
\* nextState never name END, LINK or SKIP_TOKENS, the state data is of the
\* variant of its tag, and so the handler dispatched for the next token
\* does not throw.
C18_NoHandlerThrows ==
    LET st == machine.currentState IN
    /\ st.state \in states
    /\ isOwnVariant(st)
    /\ st.prevState \in ResumeKeys
    /\ st.state = "SKIP_TOKENS" => st.nextState \in ResumeKeys
    /\ looping => ~isThrown(getState(machine, StateMachineInput(tokens, i)))

\* The SKIP_TOKENS handler is about to run on the last token of an entity
\* read inside a bold span of a list item.
C18_Witness ==
    /\ looping
    /\ machine.currentState.state = "SKIP_TOKENS"
    /\ machine.currentState.tokensToSkip = 1
    /\ machine.currentState.nextState = "BOLD"
    /\ SubSeq(tokens, 1, 2) = pBulletItem

----------------------------------------------------------------------------
(* C19 *)

\* At most this many faults are raised in one conversion.
MaxFaults == 1

\* An iteration in which dispatch or the handler raises: the assignment to
\* machine in the try block is not reached and the catch branch runs.
StepFault ==
    /\ looping
    /\ faults < MaxFaults
    /\ machine' = recover(machine, StateMachineInput(tokens, i))
    /\ i' = i + 1
    /\ faults' = faults + 1
    /\ UNCHANGED <<tokens, vars2>>

NextFault == Next \/ StepFault

\* Text, asterisks and an entity.
FaultInputs == Inputs(NoWrap, {pA, pStar, EntityGt})

InitFault == InitWith(FaultInputs)

SpecFault == InitFault /\ [][NextFault]_vars

\* C19: an iteration in which a fault is raised keeps the current state,
\* appends the token being processed and nothing else, and moves to the
\* next token; the loop goes on while tokens remain, and the conversion
\* returns only when every token has been processed.
C19_FaultKeepsToken ==
    /\ [][faults' # faults =>
              /\ machine'.currentState = machine.currentState
              /\ machine'.result = machine.result \o <<tokens[i + 1]>>
              /\ i' = i + 1
              /\ i' < Len(tokens) => looping']_vars
    /\ [](returned => i = Len(tokens))

\* A fault was raised on the closing marker of a bold span: the conversion
\* returned with the marker as read and the machine still in BOLD.
C19_Witness ==
    /\ tokens = <<"*", "a", "*">>
    /\ returned
    /\ faults = 1
    /\ machine.result = <<"*", "*", "a", "*">>
    /\ machine.currentState.state = "BOLD"

----------------------------------------------------------------------------
(* C20 *)

looping2 ==
    /\ i2 < Len(tokens2)
    /\ ~isUncaught(machine2)
    /\ machine2.currentState.state # "END"

\* One iteration of the loop of the second call.
StepSecondCall ==
    /\ looping2
    /\ LET sm    == machineOfCall(machine2, machine)
           input == StateMachineInput(tokens2, i2)
       IN  machine2' = tryCatch(sm, input)
    /\ i2' = IF isUncaught(machine2') THEN i2 ELSE i2 + 1
    /\ UNCHANGED <<tokens, i, machine, faults, tokens2>>

NextTwo == Next \/ StepSecondCall

\* The inputs of the first call, and those of the second: a span, an
\* entity and a link.
TwoInputs == Inputs(NoWrap, {pA, pStar, EntityGt})

SecondInputs == {pBold, EntityGt \o pB, pLinkTextOpen \o <<">">>}

InitTwo == InitCalls(TwoInputs, SecondInputs)

SpecTwo == InitTwo /\ [][NextTwo]_vars

\* C20: however the iterations of two calls are interleaved, the machine of
\* each call is the one that the call reaches alone after as many iterations,
\* so each call returns the result it returns alone; and a step changes the
\* locals of one call only.
C20_CallsIndependent ==
    /\ [](machine = runTo(tokens, i) /\ machine2 = runTo(tokens2, i2))
    /\ [](returned => machine.result = slackMarkdownToMarkdown(tokens))
    /\ [](~looping2 => machine2.result = slackMarkdownToMarkdown(tokens2))
    /\ [][<<tokens, i, machine>>' = <<tokens, i, machine>> \/ vars2' = vars2]_vars

\* Two calls are both inside a bold span, each with its own output.
C20_Witness ==
    /\ tokens = <<"*", "a", "*">>
    /\ tokens2 = pBold
    /\ i = 2
    /\ i2 = 2
    /\ machine.result = <<"*", "*", "a">>
    /\ machine2.result = <<"*", "*", "b">>

----------------------------------------------------------------------------
(* C21 *)

\* The nested bullet glyphs of Slack: U+25E6, and U+25AA with its variation
\* selector U+FE0E.
WhiteBullet == "u25E6"
SmallSquare == "u25AA"
VariationSelector == "uFE0E"

pNestedBullet == <<" ", " ", WhiteBullet, " ">>
pNestedSquare == <<" ", " ", SmallSquare, VariationSelector, " ">>
pNestedLetter == <<" ", " ", "a", ".", " ">>

\* Lists whose items are followed by indented nested items and other lines.
NestedInputs ==
    Inputs({<<pBulletItem, <<>>>>, <<pOrdered, <<>>>>},
           {pNL, pB, pNestedBullet, pNestedSquare, pNestedLetter})

InitNested == InitWith(NestedInputs)

SpecNested == InitNested /\ [][Next]_vars

\* The number of spaces at the start of the line that starts at position L.
indentOf(toks, L) ==
    CHOOSE n \in 0..(Len(toks) - L + 1) :
        /\ \A k \in L..(L + n - 1) : toks[k] = " "
        /\ (L + n <= Len(toks) => toks[L + n] # " ")

\* The line that starts at position L of toks is an indented nested item:
\* spaces, then a nested glyph or a marker such as a. or i., then a space.
isNestedLine(toks, L) ==
    LET k == L + indentOf(toks, L) - 1
    IN /\ indentOf(toks, L) > 0
       /\ \/ at(toks, k) = WhiteBullet /\ at(toks, k + 1) = " "
          \/ /\ at(toks, k) = SmallSquare
             /\ at(toks, k + 1) = VariationSelector
             /\ at(toks, k + 2) = " "
          \/ /\ at(toks, k) \in {"a", "i"}
             /\ at(toks, k + 1) = "."
             /\ at(toks, k + 2) = " "

\* The line that starts at position L belongs to a list: it is a list item,
\* or a nested item under a line that belongs to a list.
RECURSIVE inList(_, _)
inList(toks, L) ==
    \/ isListLine(toks, L)
    \/ /\ isNestedLine(toks, L)
       /\ L > 1
       /\ inList(toks, lineStartOf(toks, L - 1))

\* C21: the newline that ends a line of a list is output alone when an
\* indented nested item follows it, and the newline that ends the last
\* nested item is output followed by one more newline when the next line is
\* not a list line and not empty.
C21_NestedItemKeepsList ==
    LET ended == i >= 1 /\ tokens[i] = NL /\ inList(tokens, lineStartOf(tokens, i))
    IN /\ (ended /\ i < Len(tokens) /\ isNestedLine(tokens, i + 1)) =>
              appended(<<NL>>)
       /\ (/\ ended
           /\ isNestedLine(tokens, lineStartOf(tokens, i))
           /\ i < Len(tokens)
           /\ ~isListLine(tokens, i + 1)
           /\ ~isNestedLine(tokens, i + 1)
           /\ tokens[i + 1] # NL) => appended(<<NL, NL>>)

----------------------------------------------------------------------------
(* C22 *)

\* C22: on an indented nested line of a list the spaces of the indentation
\* are copied, the nested glyph U+25E6 or U+25AA is output as *, and the
\* variation selector U+FE0E that follows U+25AA is output as nothing.
C22_NestedGlyphsRewritten ==
    \A L \in 1..i :
        (/\ L = lineStartOf(tokens, i)
         /\ isNestedLine(tokens, L)
         /\ inList(tokens, L)) =>
            LET g == L + indentOf(tokens, L)
            IN /\ i < g => appended(<<" ">>)
               /\ (i = g /\ tokens[i] \in {WhiteBullet, SmallSquare}) =>
                      appended(<<"*">>)
               /\ (i = g + 1 /\ tokens[g] = SmallSquare) => appended(<<>>)

----------------------------------------------------------------------------
(* C23 *)

\* The last token read is an underscore that opened or closed an italic span.
italicMarkerRead ==
    /\ i >= 1
    /\ tokens[i] = "_"
    /\ \/ stateBefore(tokens, i) = "ITALIC"
       \/ stateBefore(tokens, i) = "TEXT" /\ machine.currentState.state = "ITALIC"

\* C23 as stated: the underscore that opens or closes an italic span is
\* output as an asterisk.
C23_ItalicToAsterisks == italicMarkerRead => appended(<<"*">>)

\* C23: the underscore that opens or closes an italic span is output as one
\* underscore, so `_italic_` stays `_italic_`.
C23_ItalicKeepsUnderscores == italicMarkerRead => appended(<<"_">>)

\* The closing underscore of the span _a_ has been read, with text after it.
C23_Witness ==
    /\ italicMarkerRead
    /\ stateBefore(tokens, i) = "ITALIC"
    /\ i < Len(tokens)
    /\ machine.currentState.state = "TEXT"
    /\ machine.result = <<"_", "a", "_">>

----------------------------------------------------------------------------
(* C24 *)

\* Lines of text, list items and quotes that hold markers, fences, entities
\* and links, converted with at most MaxFaults faults.
AppendInputs ==
    Inputs({<<<<>>, <<>>>>, <<pBulletItem, <<>>>>, <<pQuote, <<>>>>},
           {pA, pStar, pFence, EntityAmp, pLink, pNL})

InitAppend == InitWith(AppendInputs)

SpecAppend == InitAppend /\ [][NextFault]_vars

\* s is a prefix of t.
isPrefix(s, t) == Len(s) <= Len(t) /\ SubSeq(t, 1, Len(s)) = s

\* C24: every step of the loop, the recovery step included, leaves the
\* result it found as a prefix of the new result.
C24_ResultAppendOnly == [][isPrefix(machine.result, machine'.result)]_vars

\* A fault was recovered in the middle of a conversion that went on to
\* append the Markdown of a link to what was already output.
C24_Witness ==
    /\ faults = 1
    /\ returned
    /\ i = Len(tokens)
    /\ tokens[i] = ">"
    /\ endsWith(machine.result, <<"x", ")">>)
    /\ Len(machine.result) > Len(tokens)

----------------------------------------------------------------------------
(* C25 *)

\* Entities, fences and plain characters in every state.
SkipInputs == Inputs(StateWraps, {EntityGt, EntityLt, EntityAmp, pFence, pB})

InitSkip == InitWith(SkipInputs)

SpecSkip == InitSkip /\ [][Next]_vars

\* The constructs whose first token sends the machine to SKIP_TOKENS.
Skipped == {EntityGt, EntityLt, EntityAmp, pFence}

\* The step on the token at position p of toks took the machine from another
\* state into SKIP_TOKENS.
entersSkip(toks, p) ==
    /\ stateBefore(toks, p) # "SKIP_TOKENS"
    /\ runTo(toks, p).currentState.state = "SKIP_TOKENS"

\* C25: the token that sends the machine to SKIP_TOKENS is the first of an
\* entity or a fence that is whole in the input, and tokensToSkip is the
\* number of its remaining characters (3 for &gt; and &lt;, 4 for &amp;, 2 for
\* a fence); the machine is in SKIP_TOKENS with the result unchanged after
\* each of these characters but the last, and after the last it is in the
\* stored nextState with the result still unchanged.
C25_SkipsRestOfConstruct ==
    \A p \in 1..i :
        (p >= i - 4 /\ entersSkip(tokens, p)) =>
            LET entry == runTo(tokens, p)
                n == entry.currentState.tokensToSkip
            IN /\ \E c \in Skipped :
                      /\ n = Len(c) - 1
                      /\ n = (IF c = pFence THEN 2 ELSE IF c = EntityAmp THEN 4 ELSE 3)
                      /\ p + n <= Len(tokens)
                      /\ SubSeq(tokens, p, p + n) = c
               /\ i <= p + n => machine.result = entry.result
               /\ (p < i /\ i < p + n) =>
                      /\ machine.currentState.state = "SKIP_TOKENS"
                      /\ machine.currentState.tokensToSkip = n - (i - p)
               /\ i = p + n =>
                      /\ machine.currentState.state = entry.currentState.nextState
                      /\ machine.currentState.state # "SKIP_TOKENS"

\* The last character of an &amp; read in a bold span has been skipped: four
\* steps after the &, the machine is back in BOLD with nothing more output.
C25_Witness ==
    /\ i >= 5
    /\ SubSeq(tokens, i - 4, i) = EntityAmp
    /\ entersSkip(tokens, i - 4)
    /\ runTo(tokens, i - 4).currentState.tokensToSkip = 4
    /\ runTo(tokens, i - 1).currentState.state = "SKIP_TOKENS"
    /\ machine.currentState.state = "BOLD"
    /\ machine.result = runTo(tokens, i - 4).result

----------------------------------------------------------------------------
(* C26 *)

\* C26: while the machine is in LINK the result is the one produced before
\* the <, the url is the tokens read since the < up to the first |, and once
\* a | was read the display text is the tokens read after the first |, later
\* | and emphasis markers included as they are.
C26_LinkAccumulates ==
    (i >= 1 /\ machine.currentState.state = "LINK") =>
        LET s     == linkStart(tokens, i)
            inner == SubSeq(tokens, s + 1, i)
        IN  /\ tokens[s] = "<"
            /\ ">" \notin Range(inner)
            /\ machine.result = runTo(tokens, s - 1).result
            /\ machine.currentState.url = beforePipe(inner)
            /\ IF "|" \in Range(inner)
               THEN /\ machine.currentState.parsingPhase = "displayText"
                    /\ machine.currentState.displayText = afterPipe(inner)
               ELSE /\ machine.currentState.parsingPhase = "url"
                    /\ machine.currentState.displayText = Null

\* The machine is in LINK with a display text that holds a second | and an
\* emphasis marker, and with the output it had at the <.
C26_Witness ==
    /\ i >= 1
    /\ machine.currentState.state = "LINK"
    /\ machine.currentState.parsingPhase = "displayText"
    /\ machine.currentState.url = <<"h", "t", "t", "p", ":", "/", "/", "x">>
    /\ machine.currentState.displayText = <<"b", "|", "*">>
    /\ machine.result = <<"a">>

----------------------------------------------------------------------------
(* C27 *)

\* Links, emphasis markers and plain characters in every state.
LinkStateInputs == Inputs(StateWraps, {pLink, pB, pStar})

InitLinkState == InitWith(LinkStateInputs)

SpecLinkState == InitLinkState /\ [][Next]_vars

\* The states in which a link can be met.
LinkOpenStates ==
    {"TEXT", "BOLD", "ITALIC", "STRIKETHROUGH", "INLINE_CODE", "CODE_BLOCK",
     "BLOCKQUOTE", "BULLET_LIST"}

\* The last token read is the > that closed a link.
linkJustClosed == i >= 2 /\ tokens[i] = ">" /\ stateBefore(tokens, i) = "LINK"

\* C27: after the > that closes a link the machine is in the state it was in
\* when it read the < of that link, one of the eight states that look for
\* links, when tokens remain, and in END when the > is the last token.
C27_LinkResumesOpener ==
    linkJustClosed =>
        LET opener == stateBefore(tokens, linkStart(tokens, i - 1))
        IN /\ opener \in LinkOpenStates
           /\ machine.currentState.state = (IF i < Len(tokens) THEN opener ELSE "END")

\* A link met in a list item has been closed with tokens remaining.
C27_Witness ==
    /\ linkJustClosed
    /\ i < Len(tokens)
    /\ stateBefore(tokens, linkStart(tokens, i - 1)) = "BULLET_LIST"
    /\ machine.currentState.state = "BULLET_LIST"

----------------------------------------------------------------------------
(* C28 *)

\* C28: the > that closes a link whose characters hold no |, or nothing
\* after the first |, appends [url](url) to the output produced before the <,
\* the url being the characters up to the first |.
C28_EmptyTextUsesUrl ==
    linkJustClosed =>
        LET s     == linkStart(tokens, i - 1)
            inner == SubSeq(tokens, s + 1, i - 1)
            url   == beforePipe(inner)
        IN ("|" \notin Range(inner) \/ afterPipe(inner) = <<>>) =>
               machine.result =
                   runTo(tokens, s - 1).result
                       \o <<"[">> \o url \o <<"]", "(">> \o url \o <<")">>

\* The link <http://x|> after a character has just been closed.
C28_Witness ==
    /\ linkJustClosed
    /\ tokens[i - 1] = "|"
    /\ SubSeq(tokens, 1, i) = pA \o pLinkOpen \o pPipe \o pQuote
    /\ machine.result =
           pA \o <<"[">> \o <<"h", "t", "t", "p", ":", "/", "/", "x">> \o <<"]", "(">>
              \o <<"h", "t", "t", "p", ":", "/", "/", "x">> \o <<")">>

----------------------------------------------------------------------------
(* C29 *)

pHttp == <<"h", "t", "t", "p">>
pColonSlashes == <<":", "/", "/">>

\* A < followed by text, by a part of a scheme or by a whole scheme, in
\* every state.
AngleInputs == Inputs(StateWraps, {pLess, pB, pHttp, pColonSlashes})

InitAngle == InitWith(AngleInputs)

SpecAngle == InitAngle /\ [][Next]_vars

\* The last token read is a < that is not followed by http:// or https://.
plainAngleRead ==
    /\ i >= 1
    /\ tokens[i] = "<"
    /\ LET rest == SubSeq(tokens, i + 1, Len(tokens))
       IN /\ ~startsWith(rest, <<"h", "t", "t", "p", ":", "/", "/">>)
          /\ ~startsWith(rest, <<"h", "t", "t", "p", "s", ":", "/", "/">>)

\* C29 as stated: in every state such a < is copied to the output and the
\* state is held (the end of the input apart, where TEXT gives way to END).
C29_AngleCopiedEverywhere ==
    plainAngleRead =>
        /\ appended(<<"<">>)
        /\ \/ machine.currentState.state = stateBefore(tokens, i)
           \/ i = Len(tokens) /\ machine.currentState.state = "END"

\* C29: such a < read outside LINK is copied to the output and the state is
\* held (TEXT gives way to END when the < is the last token), so no link is
\* entered; one read in LINK is added to the link's url or display text like
\* any other character and appends nothing.
C29_AngleLiteralOutsideLink ==
    plainAngleRead =>
        LET before == runTo(tokens, i - 1)
            st == before.currentState.state
        IN IF st = "LINK"
           THEN /\ appended(<<>>)
                /\ machine.currentState.state = "LINK"
                /\ IF before.currentState.parsingPhase = "url"
                   THEN machine.currentState.url = before.currentState.url \o <<"<">>
                   ELSE machine.currentState.displayText =
                            orElse(before.currentState.displayText, <<>>) \o <<"<">>
           ELSE /\ appended(<<"<">>)
                /\ machine.currentState.state =
                       (IF st = "TEXT" /\ i = Len(tokens) THEN "END" ELSE st)

\* A < followed by http alone has been copied inside a bold span.
C29_Witness ==
    /\ plainAngleRead
    /\ i + 4 <= Len(tokens)
    /\ SubSeq(tokens, i + 1, i + 4) = pHttp
    /\ stateBefore(tokens, i) = "BOLD"
    /\ machine.currentState.state = "BOLD"
    /\ appended(<<"<">>)

----------------------------------------------------------------------------
(* C30 *)

\* Spans of the four kinds that hold text, the other markers, fences,
\* bullets, list markers, quote marks, newlines and entities.
InsideInputs ==
    Inputs({<<pStar, pStar>>, <<pUnderscore, pUnderscore>>, <<pTilde, pTilde>>,
            <<pBacktick, pBacktick>>},
           {pB, pStar, pUnderscore, pFence, pBulletItem, pNL, pQuote, EntityGt})

InitInside == InitWith(InsideInputs)

SpecInside == InitInside /\ [][Next]_vars

\* The token at position k of toks is the first of a link start or of an
\* entity.
startsLinkOrEntity(toks, k) ==
    LET from == SubSeq(toks, k, Len(toks))
    IN \/ startsWith(from, <<"<", "h", "t", "t", "p", ":", "/", "/">>)
       \/ startsWith(from, <<"<", "h", "t", "t", "p", "s", ":", "/", "/">>)
       \/ \E entity \in Entities : startsWith(from, entity)

\* C30: a token read in BOLD, ITALIC, STRIKETHROUGH or INLINE_CODE that is
\* not the marker of that state and not the first of a link start or of an
\* entity is appended as it is and leaves the current state as it was.
C30_SpanCopiesOtherTokens ==
    \A st \in FormattedStates :
        (/\ i >= 1
         /\ stateBefore(tokens, i) = st
         /\ tokens[i] # formatTokenOf(st)
         /\ ~startsLinkOrEntity(tokens, i)) =>
            /\ appended(<<tokens[i]>>)
            /\ machine.currentState = runTo(tokens, i - 1).currentState

\* A bullet at the start of a line inside a bold span has been copied.
C30_Witness ==
    /\ i >= 3
    /\ tokens[i] = Bullet
    /\ tokens[i - 1] = NL
    /\ stateBefore(tokens, i) = "BOLD"
    /\ machine.currentState.state = "BOLD"
    /\ appended(<<Bullet>>)

----------------------------------------------------------------------------
(* C31 *)

\* The last token read is an emphasis marker read in TEXT, BLOCKQUOTE or
\* BULLET_LIST that does not occur again in the rest of the input.
loneMarkerRead ==
    /\ i >= 1
    /\ tokens[i] \in {"*", "_", "~"}
    /\ stateBefore(tokens, i) \in OpenerStates
    /\ ~occursAfter(tokens, i, tokens[i])

\* C31 as stated: such a marker is copied as it is and the state is held
\* (the end of the input apart, where TEXT gives way to END).
C31_LoneMarkerHoldsState ==
    loneMarkerRead =>
        /\ appended(<<tokens[i]>>)
        /\ \/ machine.currentState.state = stateBefore(tokens, i)
           \/ i = Len(tokens) /\ machine.currentState.state = "END"

\* Lone and paired markers in lines of text, list items and quotes.
LoneInputs ==
    Inputs({<<<<>>, <<>>>>, <<pBulletItem, <<>>>>, <<pQuote, <<>>>>},
           {pA, pSpace, pNL, pStar, pUnderscore, pTilde})

InitLone == InitWith(LoneInputs)

SpecLone == InitLone /\ [][Next]_vars

\* The token at position k of toks is a * at the start of a line with a
\* space after it: a list marker.
isStarBulletAt(toks, k) ==
    /\ toks[k] = "*"
    /\ isLineStart(toks, k)
    /\ k < Len(toks)
    /\ toks[k + 1] = " "

\* C31: such a marker is copied as the single character it is; the state
\* is held, except that a * at the start of a line with a space after it is
\* a list marker and leaves the machine in BULLET_LIST, and that TEXT gives
\* way to END when the marker is the last token.
C31_LoneMarkerLiteral ==
    loneMarkerRead =>
        LET st == stateBefore(tokens, i)
        IN /\ appended(<<tokens[i]>>)
           /\ machine.currentState.state =
                  (IF isStarBulletAt(tokens, i) THEN "BULLET_LIST"
                   ELSE IF st = "TEXT" /\ i = Len(tokens) THEN "END"
                   ELSE st)

\* A ~ with no partner has been copied in a list item, with text after it.
C31_Witness ==
    /\ loneMarkerRead
    /\ tokens[i] = "~"
    /\ i < Len(tokens)
    /\ tokens[i + 1] = "a"
    /\ stateBefore(tokens, i) = "BULLET_LIST"
    /\ machine.currentState.state = "BULLET_LIST"
    /\ appended(<<"~">>)

----------------------------------------------------------------------------
(* C32 *)

\* List items that hold fences, emphasis markers, text and line breaks.
ListFenceInputs ==
    Inputs({<<pBulletItem, <<>>>>, <<pOrdered, <<>>>>}, {pFence, pA, pStar, pNL})

InitListFence == InitWith(ListFenceInputs)

SpecListFence == InitListFence /\ [][Next]_vars

\* C32: a fence read in BULLET_LIST opens a code block as in TEXT: it is
\* output followed by a newline, of which one is added exactly when the next
\* input token is not a newline, and the machine is in CODE_BLOCK after it,
\* where emphasis markers are copied as they are.
C32_FenceInListItem ==
    /\ fenceJustRead("BULLET_LIST") =>
          /\ machine.result =
                 runTo(tokens, i - 3).result \o pFence
                     \o (IF i < Len(tokens) /\ tokens[i + 1] = NL THEN <<>> ELSE <<NL>>)
          /\ machine.currentState.state = "CODE_BLOCK"
    /\ (/\ i >= 4
        /\ tokens[i] = "*"
        /\ SubSeq(tokens, i - 3, i - 1) = pFence
        /\ stateBefore(tokens, i - 3) = "BULLET_LIST") => appended(<<"*">>)

----------------------------------------------------------------------------
(* C33 *)

\* Quote lines and lines of text that hold fences, text and line breaks.
QuoteFenceInputs ==
    Inputs({<<pQuote, <<>>>>, <<<<>>, <<>>>>}, {pFence, pA, pNL, pQuote, pStar})

InitQuoteFence == InitWith(QuoteFenceInputs)

SpecQuoteFence == InitQuoteFence /\ [][Next]_vars

\* The fence that ends at position e of toks closed a code block whose
\* opening fence was read in BLOCKQUOTE.
closesQuotedBlock(toks, e) ==
    /\ e >= 6
    /\ SubSeq(toks, e - 2, e) = pFence
    /\ stateBefore(toks, e - 2) = "CODE_BLOCK"
    /\ \E o \in 1..(e - 5) :
          /\ SubSeq(toks, o, o + 2) = pFence
          /\ stateBefore(toks, o) = "BLOCKQUOTE"
          /\ \A k \in (o + 3)..(e - 2) : stateBefore(toks, k) = "CODE_BLOCK"

\* C33: after the closing fence of a code block, also of one opened in
\* BLOCKQUOTE, the machine is in TEXT; a newline that follows the closing
\* fence of a block opened in BLOCKQUOTE is then read in TEXT and output
\* alone, whatever the next line starts with.
C33_ClosingFenceResumesText ==
    /\ fenceJustRead("CODE_BLOCK") => machine.currentState.state = "TEXT"
    /\ (i >= 1 /\ closesQuotedBlock(tokens, i - 1) /\ tokens[i] = NL) =>
           /\ stateBefore(tokens, i) = "TEXT"
           /\ appended(<<NL>>)
           /\ machine.currentState.state # "BLOCKQUOTE"

\* The newline after a code block opened and closed on a quote line has
\* been copied alone, with a line of text after it.
C33_Witness ==
    /\ i >= 1
    /\ closesQuotedBlock(tokens, i - 1)
    /\ tokens[1] = ">"
    /\ tokens[i] = NL
    /\ i < Len(tokens)
    /\ tokens[i + 1] = "a"
    /\ machine.currentState.state = "TEXT"
    /\ appended(<<NL>>)

----------------------------------------------------------------------------
(* C34 *)

pStarItem == <<"*", " ">>

\* Lists whose lines start with U+2022, with an asterisk and a space, and
\* with one-digit and two-digit ordered markers, in any order.
MixedListInputs ==
    Inputs({<<pBulletItem, <<>>>>, <<pOrdered, <<>>>>},
           {pBulletItem, pStarItem, pOrdered, pTen, pNL, pB})

InitMixedList == InitWith(MixedListInputs)

SpecMixedList == InitMixedList /\ [][Next]_vars

\* The last token read is a newline read in BULLET_LIST, and the line after
\* it starts with a bullet marker or an ordered marker.
newlineBeforeItem ==
    /\ i >= 1
    /\ i < Len(tokens)
    /\ tokens[i] = NL
    /\ stateBefore(tokens, i) = "BULLET_LIST"
    /\ isBulletAt(tokens, i + 1) \/ orderedMarkerLen(tokens, i + 1) > 0

\* C34: a newline read in BULLET_LIST before a line that starts with a
\* bullet marker or an ordered marker is output alone and leaves the machine
\* in BULLET_LIST, whichever marker the line it ends started with.
C34_OneListOfBothKinds ==
    newlineBeforeItem =>
        /\ appended(<<NL>>)
        /\ machine.currentState.state = "BULLET_LIST"

\* The newline between a bullet line and an ordered line with a two-digit
\* number has been copied alone.
C34_Witness ==
    /\ newlineBeforeItem
    /\ tokens[1] = Bullet
    /\ lineStartOf(tokens, i) = 1
    /\ i + 4 <= Len(tokens)
    /\ SubSeq(tokens, i + 1, i + 4) = pTen
    /\ machine.currentState.state = "BULLET_LIST"
    /\ appended(<<NL>>)

----------------------------------------------------------------------------
(* C35 *)

\* The newline at position k of toks is read in BLOCKQUOTE and the token
\* after it is >.
quoteGoesOnAt(toks, k) ==
    /\ k >= 1
    /\ k < Len(toks)
    /\ toks[k] = NL
    /\ toks[k + 1] = ">"
    /\ stateBefore(toks, k) = "BLOCKQUOTE"

\* C35: a newline read in BLOCKQUOTE before a > is output alone and leaves
\* the machine in BLOCKQUOTE, and the > after it is then copied in
\* BLOCKQUOTE, so the output holds the two quote lines with one newline
\* between them.
C35_QuoteLinesStayTogether ==
    /\ quoteGoesOnAt(tokens, i) =>
           /\ appended(<<NL>>)
           /\ machine.currentState.state = "BLOCKQUOTE"
    /\ quoteGoesOnAt(tokens, i - 1) =>
           /\ machine.result = runTo(tokens, i - 2).result \o <<NL, ">">>
           /\ machine.currentState.state \in {"BLOCKQUOTE", "END"}

\* The > of the second of two quote lines has been copied right after the
\* one newline that ended the first.
C35_Witness ==
    /\ quoteGoesOnAt(tokens, i - 1)
    /\ i < Len(tokens)
    /\ tokens[1] = ">"
    /\ lineStartOf(tokens, i - 1) = 1
    /\ machine.currentState.state = "BLOCKQUOTE"
    /\ endsWith(machine.result, <<"b", NL, ">">>)

----------------------------------------------------------------------------
(* C36 *)

\* Spans of the four kinds in text, list items and quotes, with text, an
\* entity and a link whose display text is an asterisk.
ClosingInputs ==
    Inputs({<<<<>>, <<>>>>, <<pBulletItem, <<>>>>, <<pQuote, <<>>>>},
           {pA, pStar, pUnderscore, pBacktick, EntityGt, pLinkStar})

InitClosing == InitWith(ClosingInputs)

SpecClosing == InitClosing /\ [][Next]_vars

\* Position k of toks lies inside a link: after a < that starts a link and
\* not after the first > that follows it.
inLinkAt(toks, k) ==
    \E s \in 1..(k - 1) :
        /\ toks[s] = "<"
        /\ startsLinkOrEntity(toks, s)
        /\ \A j \in (s + 1)..(k - 1) : toks[j] # ">"

\* The formatted state the machine is in, or will resume after the link or
\* the skipped tokens it is reading; "none" otherwise.
pendingSpan ==
    LET cur == machine.currentState IN
    IF cur.state \in FormattedStates THEN cur.state
    ELSE IF cur.state = "LINK" /\ cur.prevState \in FormattedStates THEN cur.prevState
    ELSE IF cur.state = "SKIP_TOKENS" /\ cur.nextState \in FormattedStates
    THEN cur.nextState
    ELSE "none"

\* C36: while a span is open, its closing marker occurs among the tokens not
\* yet read, outside any link; at the end of the input, then, no span is
\* open.
C36_ClosingMarkerAhead ==
    pendingSpan # "none" =>
        \E k \in (i + 1)..Len(tokens) :
            /\ tokens[k] = formatTokenOf(pendingSpan)
            /\ ~inLinkAt(tokens, k)

----------------------------------------------------------------------------
(* C37 *)

pPeriod == <<".">>

\* Digits, periods, spaces, text and line breaks in any order, with whole
\* one-digit and two-digit markers among them.
DigitInputs == Inputs(NoWrap, {pDigit, pTen, pPeriod, pSpace, pNL, pB})

InitDigit == InitWith(DigitInputs)

SpecDigit == InitDigit /\ [][Next]_vars

Digits == {"0", "1", "2", "3", "4", "5", "6", "7", "8", "9"}

\* Position k of toks starts a line and a run of one or more digits that
\* ends right before a period and a space.
startsOrderedMarker(toks, k) ==
    /\ isLineStart(toks, k)
    /\ \E n \in 1..(Len(toks) - k) :
          /\ \A j \in k..(k + n - 1) : toks[j] \in Digits
          /\ k + n + 1 <= Len(toks)
          /\ toks[k + n] = "."
          /\ toks[k + n + 1] = " "

\* C37: at every position of the input, isOrderedListMarker holds exactly
\* when the position starts a line and a run of digits that is followed by
\* a period and then a space; it does not hold in the middle of a line, nor
\* when the period or the space is missing.
C37_OrderedMarkerExactly ==
    looping =>
        LET input == StateMachineInput(tokens, i)
            k == i + 1
        IN /\ isOrderedListMarker(input) <=> startsOrderedMarker(tokens, k)
           /\ ~isLineStart(tokens, k) => ~isOrderedListMarker(input)
           /\ (k < Len(tokens) /\ tokens[k + 1] \notin Digits \cup {"."}) =>
                  ~isOrderedListMarker(input)
           /\ (k + 1 < Len(tokens) /\ tokens[k + 1] = "." /\ tokens[k + 2] # " ") =>
                  ~isOrderedListMarker(input)

\* The two-digit marker of a second line is about to be read, and
\* isOrderedListMarker holds there.
C37_Witness ==
    /\ looping
    /\ i >= 2
    /\ tokens[i] = NL
    /\ i + 4 <= Len(tokens)
    /\ SubSeq(tokens, i + 1, i + 4) = pTen
    /\ isOrderedListMarker(StateMachineInput(tokens, i))

----------------------------------------------------------------------------
(* C38 *)

\* The last token read is a backtick read in TEXT, BLOCKQUOTE or BULLET_LIST
\* that is not the first of three backticks in a row.
singleBacktickRead ==
    /\ i >= 1
    /\ tokens[i] = Backtick
    /\ stateBefore(tokens, i) \in OpenerStates
    /\ ~(i + 2 <= Len(tokens) /\ tokens[i + 1] = Backtick /\ tokens[i + 2] = Backtick)

\* C38: a single backtick with a later backtick is output as one backtick and
\* opens INLINE_CODE; one with no later backtick is output as it is and
\* holds the state (TEXT gives way to END on the last token); in INLINE_CODE
\* the markers * _ ~ are output as they are, and the next backtick is output
\* as one backtick and closes the span.
C38_InlineCodeSpan ==
    /\ (singleBacktickRead /\ occursAfter(tokens, i, Backtick)) =>
           /\ appended(<<Backtick>>)
           /\ machine.currentState.state = "INLINE_CODE"
    /\ (singleBacktickRead /\ ~occursAfter(tokens, i, Backtick)) =>
           /\ appended(<<Backtick>>)
           /\ \/ machine.currentState.state = stateBefore(tokens, i)
              \/ i = Len(tokens) /\ machine.currentState.state = "END"
    /\ (i >= 1 /\ stateBefore(tokens, i) = "INLINE_CODE" /\ tokens[i] \in {"*", "_", "~"}) =>
           /\ appended(<<tokens[i]>>)
           /\ machine.currentState.state = "INLINE_CODE"
    /\ (i >= 1 /\ stateBefore(tokens, i) = "INLINE_CODE" /\ tokens[i] = Backtick) =>
           /\ appended(<<Backtick>>)
           /\ machine.currentState.state # "INLINE_CODE"

----------------------------------------------------------------------------
(* C39 *)
(* The simpler engine of src/stateMachine.ts: no lists, no blockquotes, no *)
(* prevState.  Its predicates shouldEnterFormattedText, isCodeBlockStart,  *)
(* isLinkStart and isHtmlEntity are those of the full engine, word for     *)
(* word.                                                                   *)

simpleBasicStateData(state) == [state |-> state]

simpleLinkStateData(url, displayText, parsingPhase, nextState) ==
    [state |-> "LINK", url |-> url, displayText |-> displayText,
     parsingPhase |-> parsingPhase, nextState |-> nextState]

simpleSkipTokensStateData(tokensToSkip, nextState) ==
    [state |-> "SKIP_TOKENS", tokensToSkip |-> tokensToSkip, nextState |-> nextState]

simpleCreateStateMachine == [currentState |-> simpleBasicStateData("TEXT"), result |-> <<>>]

\* <<>> stands for the null the code returns when no entity starts here.
simpleHandleSpecialCharacters(sm, input, nextState) ==
    IF isHtmlEntity(input, EntityGt)
    THEN <<with(sm, <<">">>, simpleSkipTokensStateData(3, nextState))>>
    ELSE IF isHtmlEntity(input, EntityLt)
    THEN <<with(sm, <<"<">>, simpleSkipTokensStateData(3, nextState))>>
    ELSE IF isHtmlEntity(input, EntityAmp)
    THEN <<with(sm, <<"&">>, simpleSkipTokensStateData(4, nextState))>>
    ELSE <<>>

simpleEnterLink(sm, nextState) ==
    with(sm, <<>>, simpleLinkStateData(<<>>, Null, "url", nextState))

\* The closing marker always gives TEXT, or END on the last token.
simpleCreateFormattedTextStateHandler(stateKey, formatToken, times, sm, input) ==
    IF input.currentToken = formatToken
    THEN with(sm, repeat(formatToken, times),
              simpleBasicStateData(IF Len(input.nextTokens) > 0 THEN "TEXT" ELSE "END"))
    ELSE IF isLinkStart(input)
    THEN simpleEnterLink(sm, stateKey)
    ELSE LET specialCharsResult == simpleHandleSpecialCharacters(sm, input, stateKey) IN
         IF specialCharsResult # <<>>
         THEN specialCharsResult[1]
         ELSE with(sm, <<input.currentToken>>, simpleBasicStateData(stateKey))

simpleTEXT(sm, input) ==
    LET textOrEnd == simpleBasicStateData(IF Len(input.nextTokens) > 0 THEN "TEXT" ELSE "END")
    IN
    IF isLinkStart(input)
    THEN simpleEnterLink(sm, "TEXT")
    ELSE IF isCodeBlockStart(input)
    THEN with(sm, <<Backtick, Backtick, Backtick>>,
              simpleSkipTokensStateData(2, "CODE_BLOCK"))
    ELSE IF shouldEnterFormattedText(input, "*")
    THEN with(sm, <<"*", "*">>, simpleBasicStateData("BOLD"))
    ELSE IF shouldEnterFormattedText(input, "_")
    THEN with(sm, <<"_">>, simpleBasicStateData("ITALIC"))
    ELSE IF shouldEnterFormattedText(input, "~")
    THEN with(sm, <<"~", "~">>, simpleBasicStateData("STRIKETHROUGH"))
    ELSE IF input.currentToken = Bullet
    THEN with(sm, <<"*">>, textOrEnd)
    ELSE LET specialCharsResult == simpleHandleSpecialCharacters(sm, input, "TEXT") IN
         IF specialCharsResult # <<>>
         THEN specialCharsResult[1]
         ELSE with(sm, <<input.currentToken>>, textOrEnd)

simpleBOLD(sm, input) ==
    simpleCreateFormattedTextStateHandler("BOLD", "*", 2, sm, input)

simpleITALIC(sm, input) ==
    simpleCreateFormattedTextStateHandler("ITALIC", "_", 1, sm, input)

simpleSTRIKETHROUGH(sm, input) ==
    simpleCreateFormattedTextStateHandler("STRIKETHROUGH", "~", 2, sm, input)

simpleINLINE_CODE(sm, input) ==
    simpleCreateFormattedTextStateHandler("INLINE_CODE", Backtick, 1, sm, input)

simpleCODE_BLOCK(sm, input) ==
    IF isCodeBlockStart(input)
    THEN with(sm, <<Backtick, Backtick, Backtick>>, simpleSkipTokensStateData(2, "TEXT"))
    ELSE IF isLinkStart(input)
    THEN simpleEnterLink(sm, "CODE_BLOCK")
    ELSE LET specialCharsResult == simpleHandleSpecialCharacters(sm, input, "CODE_BLOCK") IN
         IF specialCharsResult # <<>>
         THEN specialCharsResult[1]
         ELSE with(sm, <<input.currentToken>>, simpleBasicStateData("CODE_BLOCK"))

simpleLINK(sm, input) ==
    LET linkData == sm.currentState IN
    IF input.currentToken = ">"
    THEN with(sm, markdownLink(linkData),
              simpleBasicStateData(IF Len(input.nextTokens) > 0
                                   THEN linkData.nextState ELSE "END"))
    ELSE IF input.currentToken = "|" /\ linkData.parsingPhase = "url"
    THEN with(sm, <<>>,
              [linkData EXCEPT !.displayText = <<>>, !.parsingPhase = "displayText"])
    ELSE IF linkData.parsingPhase = "url"
    THEN with(sm, <<>>, [linkData EXCEPT !.url = linkData.url \o <<input.currentToken>>])
    ELSE IF linkData.parsingPhase = "displayText"
    THEN with(sm, <<>>,
              [linkData EXCEPT !.displayText =
                   orElse(linkData.displayText, <<>>) \o <<input.currentToken>>])
    ELSE sm

simpleEND(sm, input) == sm

simpleSKIP_TOKENS(sm, input) ==
    LET skipData == sm.currentState
        tokensToSkip == skipData.tokensToSkip
    IN IF tokensToSkip <= 1
       THEN with(sm, <<>>, simpleBasicStateData(skipData.nextState))
       ELSE with(sm, <<>>, simpleSkipTokensStateData(tokensToSkip - 1, skipData.nextState))

\* The keys of the simpler engine's dispatch table.
simpleStates ==
    {"TEXT", "BOLD", "ITALIC", "STRIKETHROUGH", "INLINE_CODE", "CODE_BLOCK",
     "LINK", "END", "SKIP_TOKENS"}

\* getState(machine.currentState)(machine, input) of the simpler engine.
simpleGetState(sm, input) ==
    LET key == sm.currentState.state IN
    IF key \notin simpleStates
    THEN IF key \in inheritedStates THEN inherited(key, sm) ELSE Thrown
    ELSE
    CASE key = "TEXT"          -> simpleTEXT(sm, input)
      [] key = "BOLD"          -> simpleBOLD(sm, input)
      [] key = "ITALIC"        -> simpleITALIC(sm, input)
      [] key = "STRIKETHROUGH" -> simpleSTRIKETHROUGH(sm, input)
      [] key = "INLINE_CODE"   -> simpleINLINE_CODE(sm, input)
      [] key = "CODE_BLOCK"    -> simpleCODE_BLOCK(sm, input)
      [] key = "LINK"          -> simpleLINK(sm, input)
      [] key = "END"           -> simpleEND(sm, input)
      [] key = "SKIP_TOKENS"   -> simpleSKIP_TOKENS(sm, input)

\* The simpler engine's machine after n iterations of its driver loop, which
\* has no catch branch and stops at END: an error raised by the dispatch, by
\* a handler, or by the test for END on a string, leaves the call.
RECURSIVE simpleRunTo(_, _)
simpleRunTo(toks, n) ==
    IF n = 0 THEN simpleCreateStateMachine
    ELSE LET sm == simpleRunTo(toks, n - 1) IN
         IF isThrown(sm) THEN sm
         ELSE IF sm.currentState.state = "END" THEN sm
         ELSE LET next == simpleGetState(sm, StateMachineInput(toks, n - 1)) IN
              IF isString(next) THEN Thrown ELSE next

simpleSlackMarkdownToMarkdown(toks) == simpleRunTo(toks, Len(toks)).result

\* One line that starts with text: markers, spaces, a bullet glyph, a digit,
\* an entity and a link.
VariantInputs ==
    Inputs({<<pA, <<>>>>},
           {pA, pSpace, pStar, pUnderscore, pBullet, pDigit, EntityGt, pLink})

InitVariant == InitWith(VariantInputs)

SpecVariant == InitVariant /\ [][Next]_vars

\* toks holds no backtick and no newline and does not start with >, U+2022,
\* a digit, or an asterisk and a space.
startsAsText(toks) ==
    /\ Backtick \notin Range(toks)
    /\ NL \notin Range(toks)
    /\ Len(toks) > 0 => toks[1] \notin {">", Bullet} \cup Digits
    /\ ~(Len(toks) > 1 /\ toks[1] = "*" /\ toks[2] = " ")

\* C39: on such an input the full engine returns what the simpler engine
\* returns.
C39_VariantsAgree ==
    (returned /\ startsAsText(tokens)) =>
        machine.result = simpleSlackMarkdownToMarkdown(tokens)

====
